---------------------------- MODULE Spec2Model ----------------------------
(***************************************************************************)
(* A model of the arcaflow expression library: the tokenizer, the          *)
(* recursive-descent parser, the printable form of the AST, the            *)
(* dependency/type resolver, the path tree and the evaluator.              *)
(*                                                                         *)
(* Text is a sequence of one-character strings.  A parse takes a source    *)
(* text, tokenizes it as internal/ast/tokenizer.go does and runs the       *)
(* parser functions of internal/ast/recursive_descent_parser.go over the   *)
(* token sequence.  The facade operations (New, Type, Dependencies,        *)
(* Evaluate, String of the AST) are the actions of the state machine.      *)
(***************************************************************************)
EXTENDS Integers, Sequences, FiniteSets, TLC

VARIABLES
    expressionString,  \* the text handed to New
    pc,                \* the position of the caller in its use of the expression
    exprAst,           \* what New returned: [err, node]
    requirements,      \* the UnpackRequirements of the Dependencies call
    rootValue,         \* the root data of the Evaluate call
    printed,           \* the printable form of the AST, once String was called
    tree,              \* the heap of the path tree handed to Unpack, its root first
    returned,          \* what the operation called last returned
    memory,            \* the path tree nodes allocated by the calls that run concurrently
    calls              \* the frame of each of the callers that run concurrently

vars == <<expressionString, pc, exprAst, requirements, rootValue, printed, tree, returned,
          memory, calls>>

(***************************************************************************)
(* Characters                                                              *)
(***************************************************************************)
Digits == {"0", "1", "2", "3", "4", "5", "6", "7", "8", "9"}

\* The letters of identifiers (lower case and the underscore).
Letters == {"a", "b", "c", "d", "e", "f", "g", "h", "i", "j", "k", "l", "m", "n", "o",
            "p", "q", "r", "s", "t", "u", "v", "w", "x", "y", "z", "_"}

WordChars == Letters \cup Digits

\* scanner.GoWhitespace; the tab, the backspace and the back quote are
\* written as one model character each.
TabChar == "\t"
BackspaceChar == "<BS>"
BackQuoteChar == "<BQ>"
NewlineChar == "\n"
ReturnChar == "\r"
Whitespace == {" ", TabChar, NewlineChar, ReturnChar}

DigitVal(c) ==
    CASE c = "0" -> 0 [] c = "1" -> 1 [] c = "2" -> 2 [] c = "3" -> 3
      [] c = "4" -> 4 [] c = "5" -> 5 [] c = "6" -> 6 [] c = "7" -> 7
      [] c = "8" -> 8 [] c = "9" -> 9

DigitChar(n) ==
    CASE n = 0 -> "0" [] n = 1 -> "1" [] n = 2 -> "2" [] n = 3 -> "3"
      [] n = 4 -> "4" [] n = 5 -> "5" [] n = 6 -> "6" [] n = 7 -> "7"
      [] n = 8 -> "8" [] n = 9 -> "9"

\* The index of the first character at or after i that is not in S.
RECURSIVE SpanWhile(_, _, _)
SpanWhile(text, i, S) ==
    IF i > Len(text) \/ text[i] \notin S THEN i ELSE SpanWhile(text, i + 1, S)

\* strings.TrimSpace.
RECURSIVE TrimRight(_)
TrimRight(text) ==
    IF Len(text) > 0 /\ text[Len(text)] \in Whitespace
    THEN TrimRight(SubSeq(text, 1, Len(text) - 1))
    ELSE text

TrimSpace(text) ==
    LET i == SpanWhile(text, 1, Whitespace)
    IN  TrimRight(SubSeq(text, i, Len(text)))

(***************************************************************************)
(* Tokenizer                                                               *)
(***************************************************************************)
\* The characters text/scanner accepts after a backslash inside a quoted
\* literal closed by quote.
ScanEscapeChars(quote) == {"a", "b", "f", "n", "r", "t", "v", "\\", quote}

\* text/scanner's scanString: i is the index after the opening quote; the
\* result is the index after the literal (Len + 1 when it is not closed).
RECURSIVE ScanString(_, _, _)
ScanString(text, i, quote) ==
    IF i > Len(text) \/ text[i] = NewlineChar THEN i
    ELSE IF text[i] = quote THEN i + 1
    ELSE IF text[i] = "\\"
         THEN IF i + 1 <= Len(text) /\ text[i + 1] \in ScanEscapeChars(quote)
              THEN ScanString(text, i + 2, quote)
              ELSE ScanString(text, i + 1, quote)
    ELSE ScanString(text, i + 1, quote)

\* text/scanner's raw string: up to the closing back quote.
RECURSIVE ScanRawString(_, _)
ScanRawString(text, i) ==
    IF i > Len(text) THEN i
    ELSE IF text[i] = BackQuoteChar THEN i + 1
    ELSE ScanRawString(text, i + 1)

\* text/scanner's scanNumber for decimal literals: digits, a fraction and an
\* exponent.  i is the index of the first character of the number.
ScanExponent(text, i) ==
    IF i <= Len(text) /\ text[i] \in {"e", "E"}
    THEN LET j == IF i + 1 <= Len(text) /\ text[i + 1] \in {"+", "-"} THEN i + 2 ELSE i + 1
         IN  SpanWhile(text, j, Digits)
    ELSE i

ScanNumber(text, i) ==
    LET d == SpanWhile(text, i, Digits)
        f == IF d <= Len(text) /\ text[d] = "." THEN SpanWhile(text, d + 1, Digits) ELSE d
    IN  ScanExponent(text, f)

\* One Scan of text/scanner in its default mode (GoTokens): the index after
\* the token that starts at i, where text[i] is not white space.
ScanEnd(text, i) ==
    LET c == text[i]
    IN  CASE c \in Letters -> SpanWhile(text, i, WordChars)
          [] c \in Digits -> ScanNumber(text, i)
          [] c = "." /\ i + 1 <= Len(text) /\ text[i + 1] \in Digits -> ScanNumber(text, i)
          [] c = "\"" -> ScanString(text, i + 1, "\"")
          [] c = "'" -> ScanString(text, i + 1, "'")
          [] c = BackQuoteChar -> ScanRawString(text, i + 1)
          [] OTHER -> i + 1

\* The patterns of tokenPatterns on a token text.
IsBooleanText(t) == t = <<"t", "r", "u", "e">> \/ t = <<"f", "a", "l", "s", "e">>

IsFloatText(t) ==
    LET d == SpanWhile(t, 1, Digits)
    IN  /\ d > 1
        /\ d <= Len(t)
        /\ t[d] = "."
        /\ LET f == SpanWhile(t, d + 1, Digits)
           IN  \/ f = Len(t) + 1
               \/ /\ f <= Len(t)
                  /\ t[f] \in {"e", "E"}
                  /\ LET g == IF f + 1 <= Len(t) /\ t[f + 1] \in {"+", "-"} THEN f + 2 ELSE f + 1
                     IN  g <= Len(t) /\ SpanWhile(t, g, Digits) = Len(t) + 1

IsIntText(t) ==
    \/ t = <<"0">>
    \/ Len(t) >= 1 /\ t[1] \in (Digits \ {"0"}) /\ SpanWhile(t, 1, Digits) = Len(t) + 1

IsIdentifierText(t) == Len(t) >= 1 /\ SpanWhile(t, 1, WordChars) = Len(t) + 1

IsStringText(t) ==
    /\ Len(t) >= 2
    /\ \/ t[1] = "\"" /\ t[Len(t)] = "\""
       \/ t[1] = "'" /\ t[Len(t)] = "'"
    /\ \A i \in 1..Len(t) : t[i] # NewlineChar

IsRawStringText(t) ==
    /\ Len(t) >= 2 /\ t[1] = BackQuoteChar /\ t[Len(t)] = BackQuoteChar
    /\ \A i \in 1..Len(t) : t[i] # NewlineChar

SingleCharTokenID(c) ==
    CASE c = "[" -> "map-delimiter-start"
      [] c = "]" -> "map-delimiter-end"
      [] c = "(" -> "parentheses-start"
      [] c = ")" -> "parentheses-end"
      [] c = "." -> "object-access"
      [] c = "$" -> "root-access"
      [] c = "@" -> "current-object-access"
      [] c = "=" -> "equals-sign"
      [] c = ":" -> "selector"
      [] c = "?" -> "filter"
      [] c = "-" -> "negation-sign"
      [] c = "*" -> "asterisk"
      [] c = "," -> "list-separator"
      [] c = "/" -> "divide"
      [] c = ">" -> "greater-than"
      [] c = "<" -> "less-than"
      [] c = "+" -> "plus"
      [] c = "!" -> "not"
      [] c = "^" -> "power"
      [] c = "%" -> "mod"
      [] c = "&" -> "and"
      [] c = "|" -> "or"
      [] OTHER -> "error"

\* The first pattern of tokenPatterns that matches the token text.
TokenIDOf(t) ==
    CASE IsBooleanText(t) -> "boolean"
      [] IsFloatText(t) -> "float"
      [] IsIntText(t) -> "int"
      [] IsIdentifierText(t) -> "identifier"
      [] IsStringText(t) -> "string"
      [] IsRawStringText(t) -> "raw-string"
      [] Len(t) = 1 -> SingleCharTokenID(t[1])
      [] OTHER -> "error"

\* getNext: the token that starts at i.  A token of id "error" is the
\* UnknownToken returned together with an InvalidTokenError.
TokenAt(text, i) ==
    LET e == ScanEnd(text, i)
        t == SubSeq(text, i, e - 1)
    IN  [TokenID |-> TokenIDOf(t), Value |-> t, Column |-> i]

\* The tokens getNext returns, in order, while hasNextToken holds, for the
\* text handed to initTokenizer.
RECURSIVE TokensFrom(_, _)
TokensFrom(text, i) ==
    LET j == SpanWhile(text, i, Whitespace)
    IN  IF j > Len(text) THEN <<>>
        ELSE <<TokenAt(text, j)>> \o TokensFrom(text, ScanEnd(text, j))

Tokenize(expression) == TokensFrom(TrimSpace(expression), 1)

(***************************************************************************)
(* AST nodes                                                               *)
(***************************************************************************)
NilNode == [kind |-> "nil"]

StringLiteral(v) == [kind |-> "StringLiteral", StrValue |-> v]
IntLiteral(n) == [kind |-> "IntLiteral", IntValue |-> n]
\* A float64 that a short decimal literal denotes exactly enough to print
\* back: mant / 10^scale, with no trailing zero in the fraction.
FloatLiteral(m, s) == [kind |-> "FloatLiteral", FloatValue |-> [mant |-> m, scale |-> s]]
BooleanLiteral(b) == [kind |-> "BooleanLiteral", BooleanValue |-> b]
Identifier(name) == [kind |-> "Identifier", IdentifierName |-> name]
DotNotation(left, right) ==
    [kind |-> "DotNotation", LeftAccessibleNode |-> left, RightAccessIdentifier |-> right]
BracketAccessor(left, right) ==
    [kind |-> "BracketAccessor", LeftNode |-> left, RightExpression |-> right]
FunctionCall(id, args) ==
    [kind |-> "FunctionCall", FuncIdentifier |-> id, ArgumentInputs |-> args]
BinaryOperation(left, operation, right) ==
    [kind |-> "BinaryOperation", LeftNode |-> left, RightNode |-> right, Operation |-> operation]
UnaryOperation(operation, right) ==
    [kind |-> "UnaryOperation", LeftOperation |-> operation, RightNode |-> right]

ValueLiteralKinds == {"StringLiteral", "IntLiteral", "FloatLiteral", "BooleanLiteral"}

(***************************************************************************)
(* Parse errors                                                            *)
(***************************************************************************)
NilToken == [TokenID |-> "nil", Value |-> <<>>, Column |-> 0]

NoErr == [kind |-> "none"]
\* ExpectedTokens of the Go value is nil (end of expression expected) when
\* ExpectedNil holds, and the slice ExpectedTokens otherwise.
anyTokenExpected(found, expected) ==
    [kind |-> "InvalidGrammarError", FoundToken |-> found,
     ExpectedTokens |-> <<>>, ExpectedNil |-> FALSE]
InvalidGrammarError(found, expected) ==
    [kind |-> "InvalidGrammarError", FoundToken |-> found,
     ExpectedTokens |-> expected, ExpectedNil |-> FALSE]
InvalidGrammarErrorEnd(found) ==
    [kind |-> "InvalidGrammarError", FoundToken |-> found,
     ExpectedTokens |-> <<>>, ExpectedNil |-> TRUE]
InvalidTokenError(tok) == [kind |-> "InvalidTokenError", InvalidToken |-> tok]
\* A Go run-time panic (a nil dereference, an explicit panic).
Panic(msg) == [kind |-> "panic", msg |-> msg]

IsErr(r) == r.err.kind # "none"

\* The Error method of an error of the parser: the text it prints, as the
\* formats and the values printed with them.
ErrorString(err) ==
    CASE err.kind = "InvalidTokenError" ->
            <<"Invalid token \"%s\" in %s at line %d:%d",
              err.InvalidToken.Value, err.InvalidToken.Column>>
      [] err.kind = "InvalidGrammarError" ->
            (IF err.FoundToken.TokenID # "nil"
             THEN <<"Token %q of ID %q placed in invalid configuration in %q at line %d:%d; ",
                    err.FoundToken.Value, err.FoundToken.TokenID, err.FoundToken.Column>>
             ELSE <<"Expected token not found; ">>)
            \o (CASE err.ExpectedNil -> <<"expected end of expression.">>
                  [] Len(err.ExpectedTokens) = 0 -> <<"expected any token.">>
                  [] Len(err.ExpectedTokens) = 1 ->
                        <<"expected token \"%v\"", err.ExpectedTokens[1]>>
                  [] OTHER -> <<"expected one of tokens \"%v\"", err.ExpectedTokens>>)
      [] OTHER -> <<err.msg>>

\* fmt.Errorf: an error with the text of format and args that wraps the
\* error wrapped, which is NoErr when the format has no %w.  A node among
\* args stands for the text its String method gives.
Errorf(format, args, wrapped) ==
    [kind |-> "error", msg |-> format, args |-> args, wrapped |-> wrapped]

\* What a parser function returns, with the parser's fields after it;
\* failed tells whether err is an error.
Parsed(node, pos, atRoot) ==
    [failed |-> FALSE, err |-> NoErr, node |-> node, pos |-> pos, atRoot |-> atRoot]
Failed(err, pos, atRoot) ==
    [failed |-> TRUE, err |-> err, node |-> NilNode, pos |-> pos, atRoot |-> atRoot]

(***************************************************************************)
(* Parser                                                                  *)
(***************************************************************************)
\* p.currentToken when the parser stands at pos.
CurrentToken(toks, pos) == IF pos >= 1 /\ pos <= Len(toks) THEN toks[pos] ELSE NilToken

IsNil(tok) == tok.TokenID = "nil"

sliceContains(slice, value) == \E i \in 1..Len(slice) : slice[i] = value

\* advanceToken: the position after it and the error getNext returned.
advanceToken(toks, pos) ==
    LET next == CurrentToken(toks, pos + 1)
    IN  [pos |-> pos + 1,
         err |-> IF next.TokenID = "error" THEN InvalidTokenError(next) ELSE NoErr]

\* strconv.Atoi on a run of decimal digits.
RECURSIVE Atoi(_)
Atoi(digits) ==
    IF Len(digits) = 0 THEN 0
    ELSE 10 * Atoi(SubSeq(digits, 1, Len(digits) - 1)) + DigitVal(digits[Len(digits)])

RECURSIVE Pow10(_)
Pow10(n) == IF n <= 0 THEN 1 ELSE 10 * Pow10(n - 1)

RECURSIVE NormalizeDecimal(_, _)
NormalizeDecimal(m, s) ==
    IF s > 0 /\ m % 10 = 0 THEN NormalizeDecimal(m \div 10, s - 1)
    ELSE [mant |-> m, scale |-> s]

\* strconv.ParseFloat on a text of the float pattern.
ParseFloat(t) ==
    LET d == SpanWhile(t, 1, Digits)
        f == SpanWhile(t, d + 1, Digits)
        whole == SubSeq(t, 1, d - 1)
        frac == SubSeq(t, d + 1, f - 1)
        hasExp == f <= Len(t)
        neg == hasExp /\ t[f + 1] = "-"
        expDigits == IF ~hasExp THEN <<>>
                     ELSE IF t[f + 1] \in {"+", "-"} THEN SubSeq(t, f + 2, Len(t))
                     ELSE SubSeq(t, f + 1, Len(t))
        e == IF neg THEN 0 - Atoi(expDigits) ELSE Atoi(expDigits)
        m == Atoi(whole \o frac)
        s == Len(frac) - e
    IN  IF s < 0 THEN [mant |-> m * Pow10(0 - s), scale |-> 0]
        ELSE NormalizeDecimal(m, s)

\* escapeReplacer.Replace: one left-to-right pass over the text.
EscapeReplacement(c) ==
    CASE c = "\\" -> "\\"
      [] c = "t" -> TabChar
      [] c = "n" -> NewlineChar
      [] c = "r" -> ReturnChar
      [] c = "b" -> BackspaceChar
      [] c = "\"" -> "\""

RECURSIVE escapeReplacer(_)
escapeReplacer(t) ==
    IF Len(t) = 0 THEN <<>>
    ELSE IF t[1] = "\\" /\ Len(t) >= 2 /\ t[2] \in {"\\", "t", "n", "r", "b", "\""}
         THEN <<EscapeReplacement(t[2])>> \o escapeReplacer(SubSeq(t, 3, Len(t)))
    ELSE <<t[1]>> \o escapeReplacer(SubSeq(t, 2, Len(t)))

parseIntLiteral(toks, pos, atRoot) ==
    LET tok == CurrentToken(toks, pos)
        a == advanceToken(toks, pos)
    IN  IF tok.TokenID # "int"
        THEN Failed(InvalidGrammarError(tok, <<"int">>), pos, atRoot)
        ELSE IF a.err.kind # "none" THEN Failed(a.err, a.pos, atRoot)
        ELSE Parsed(IntLiteral(Atoi(tok.Value)), a.pos, atRoot)

parseFloatLiteral(toks, pos, atRoot) ==
    LET tok == CurrentToken(toks, pos)
        a == advanceToken(toks, pos)
    IN  IF tok.TokenID # "float"
        THEN Failed(InvalidGrammarError(tok, <<"float">>), pos, atRoot)
        ELSE IF a.err.kind # "none" THEN Failed(a.err, a.pos, atRoot)
        ELSE LET v == ParseFloat(tok.Value)
             IN  Parsed(FloatLiteral(v.mant, v.scale), a.pos, atRoot)

parseBooleanLiteral(toks, pos, atRoot) ==
    LET tok == CurrentToken(toks, pos)
        a == advanceToken(toks, pos)
    IN  IF tok.TokenID # "boolean"
        THEN Failed(InvalidGrammarError(tok, <<"boolean">>), pos, atRoot)
        ELSE IF a.err.kind # "none" THEN Failed(a.err, a.pos, atRoot)
        ELSE Parsed(BooleanLiteral(tok.Value = <<"t", "r", "u", "e">>), a.pos, atRoot)

parseStringLiteral(toks, pos, atRoot) ==
    LET tok == CurrentToken(toks, pos)
        parsedString == escapeReplacer(SubSeq(tok.Value, 2, Len(tok.Value) - 1))
        a == advanceToken(toks, pos)
    IN  IF a.err.kind # "none" THEN Failed(a.err, a.pos, atRoot)
        ELSE Parsed(StringLiteral(parsedString), a.pos, atRoot)

parseIdentifier(toks, pos, atRoot) ==
    LET tok == CurrentToken(toks, pos)
        a == advanceToken(toks, pos)
    IN  IF IsNil(tok) \/ tok.TokenID # "identifier"
        THEN Failed(InvalidGrammarError(tok, <<"identifier">>), pos, atRoot)
        ELSE IF a.err.kind # "none" THEN Failed(a.err, a.pos, atRoot)
        ELSE Parsed(Identifier(tok.Value), a.pos, atRoot)

\* eat: the position after the token and the error, if any.
eat(toks, pos, validTokens) ==
    LET tok == CurrentToken(toks, pos)
    IN  IF IsNil(tok) \/ ~sliceContains(validTokens, tok.TokenID)
        THEN [pos |-> pos, err |-> InvalidGrammarError(tok, validTokens)]
        ELSE advanceToken(toks, pos)

\* The ExpectedTokens of parseMathOperator's default branch.
MathOperatorTokens ==
    <<"plus", "negation-sign", "asterisk", "divide", "power", "not", "greater-than",
      "less-than", "equals-sign", "and", "or", "mod">>

\* The operator a comparison token makes with a following "=".
WithEquals(firstToken) ==
    CASE firstToken = "not" -> "NotEqualTo"
      [] firstToken = "greater-than" -> "GreaterThanEqualTo"
      [] firstToken = "less-than" -> "LessThanEqualTo"
      [] firstToken = "equals-sign" -> "EqualTo"

\* The operator a comparison token makes alone ("Invalid" for "=").
WithoutEquals(firstToken) ==
    CASE firstToken = "greater-than" -> "GreaterThan"
      [] firstToken = "less-than" -> "LessThan"
      [] firstToken = "not" -> "Not"
      [] firstToken = "equals-sign" -> "Invalid"

\* parseMathOperator: [err, op, pos].  It is called with a current token.
parseMathOperator(toks, pos) ==
    LET a == advanceToken(toks, pos)
        Op(o, at) == [err |-> NoErr, op |-> o, pos |-> at]
        Bad(e, at) == [err |-> e, op |-> "Invalid", pos |-> at]
        \* second is the token after the first one and afterSecond the
        \* parser once that token is consumed too.
        operator(firstToken, afterFirst, second, afterSecond) ==
            IF afterFirst.err.kind # "none" THEN Bad(afterFirst.err, afterFirst.pos)
            ELSE CASE firstToken = "plus" -> Op("Add", afterFirst.pos)
                   [] firstToken = "negation-sign" -> Op("Subtract", afterFirst.pos)
                   [] firstToken = "asterisk" -> Op("Multiply", afterFirst.pos)
                   [] firstToken = "divide" -> Op("Divide", afterFirst.pos)
                   [] firstToken = "power" -> Op("Power", afterFirst.pos)
                   [] firstToken = "mod" -> Op("Modulus", afterFirst.pos)
                   [] firstToken \in {"not", "greater-than", "less-than", "equals-sign"} ->
                        IF ~IsNil(second) /\ second.TokenID = "equals-sign"
                        THEN IF afterSecond.err.kind # "none"
                             THEN Bad(afterSecond.err, afterSecond.pos)
                             ELSE Op(WithEquals(firstToken), afterSecond.pos)
                        ELSE IF firstToken = "equals-sign"
                             THEN Bad(InvalidGrammarError(second, <<"equals-sign">>),
                                      afterFirst.pos)
                             ELSE Op(WithoutEquals(firstToken), afterFirst.pos)
                   [] firstToken = "and" ->
                        IF IsNil(second) \/ second.TokenID # "and"
                        THEN Bad(InvalidGrammarError(second, <<"and">>), afterFirst.pos)
                        ELSE IF afterSecond.err.kind # "none"
                        THEN Bad(afterSecond.err, afterSecond.pos)
                        ELSE Op("And", afterSecond.pos)
                   [] firstToken = "or" ->
                        IF IsNil(second) \/ second.TokenID # "or"
                        THEN Bad(InvalidGrammarError(second, <<"or">>), afterFirst.pos)
                        ELSE IF afterSecond.err.kind # "none"
                        THEN Bad(afterSecond.err, afterSecond.pos)
                        ELSE Op("Or", afterSecond.pos)
                   [] OTHER -> Bad(InvalidGrammarError(second, MathOperatorTokens),
                                   afterFirst.pos)
    IN  operator(CurrentToken(toks, pos).TokenID, a, CurrentToken(toks, a.pos),
                 advanceToken(toks, a.pos))

ArgumentList(args) == [kind |-> "ArgumentList", Arguments |-> args]

expStartIdentifierTokens == <<"root-access", "current-object-access", "identifier">>
literalTokens == <<"string", "int", "boolean", "float">>
validStartTokens == expStartIdentifierTokens \o literalTokens

RECURSIVE parseRootExpression(_, _, _)
RECURSIVE childNodeParser(_, _, _, _)
RECURSIVE parseBinaryLoop(_, _, _, _)
RECURSIVE parseBinaryExpression(_, _, _, _)
RECURSIVE parseLeftUnaryExpression(_, _, _, _, _)
RECURSIVE parseConditionalOr(_, _, _)
RECURSIVE parseConditionalAnd(_, _, _)
RECURSIVE parseConditionalNot(_, _, _)
RECURSIVE parseComparisonExpression(_, _, _)
RECURSIVE parseAdditionSubtraction(_, _, _)
RECURSIVE parseMultiplicationDivision(_, _, _)
RECURSIVE parseExponents(_, _, _)
RECURSIVE parseParentheses(_, _, _)
RECURSIVE parseNegationOperation(_, _, _)
RECURSIVE parseValueOrAccessExpression(_, _, _)
RECURSIVE parseIdentifierOrFunction(_, _, _)
RECURSIVE parseFunctionArgs(_, _, _, _)
RECURSIVE parseArgsLoop(_, _, _, _, _, _)
RECURSIVE parseArgs(_, _, _)
RECURSIVE parseChainedAccess(_, _, _, _)
RECURSIVE parseBracketAccess(_, _, _, _)

parseBracketAccess(expressionToAccess, toks, pos, atRoot) ==
    LET tok == CurrentToken(toks, pos)
        a == advanceToken(toks, pos)
        subExpr == childNodeParser("parseRootExpression", toks, a.pos, atRoot)
        e == eat(toks, subExpr.pos, <<"map-delimiter-end">>)
    IN  IF IsNil(tok) \/ tok.TokenID # "map-delimiter-start"
        THEN Failed(InvalidGrammarError(tok, <<"identifier">>), pos, atRoot)
        ELSE IF a.err.kind # "none" THEN Failed(a.err, a.pos, atRoot)
        ELSE IF subExpr.failed THEN subExpr
        ELSE IF e.err.kind # "none" THEN Failed(e.err, e.pos, subExpr.atRoot)
        ELSE Parsed(BracketAccessor(expressionToAccess, subExpr.node), e.pos, subExpr.atRoot)

\* One turn of the loop of parseArgs, from its top.
parseArgsLoop(i, expectedToken, argNodes, toks, pos, atRoot) ==
    LET tok == CurrentToken(toks, pos)
        a == advanceToken(toks, pos)
        next == CurrentToken(toks, a.pos)
        b == advanceToken(toks, a.pos)
        arg == childNodeParser("parseRootExpression", toks, a.pos, atRoot)
    IN  IF IsNil(tok) /\ i # 0
        THEN Failed(InvalidGrammarError(tok, <<"parentheses-end">>), pos, atRoot)
        ELSE IF IsNil(tok)
        THEN Failed(Panic("nil pointer dereference"), pos, atRoot)
        ELSE IF i # 0 /\ tok.TokenID = "parentheses-end"
        THEN IF a.err.kind # "none" THEN Failed(a.err, a.pos, atRoot)
             ELSE Parsed(ArgumentList(argNodes), a.pos, atRoot)
        ELSE IF tok.TokenID # expectedToken
        THEN Failed(InvalidGrammarError(tok,
                        IF i # 0 THEN <<expectedToken, "parentheses-end">>
                        ELSE <<expectedToken>>), pos, atRoot)
        ELSE IF a.err.kind # "none" THEN Failed(a.err, a.pos, atRoot)
        ELSE IF IsNil(next)
        THEN Failed(InvalidGrammarError(next, <<"parentheses-end">>), a.pos, atRoot)
        ELSE IF i = 0 /\ next.TokenID = "parentheses-end"
        THEN IF b.err.kind # "none" THEN Failed(b.err, b.pos, atRoot)
             ELSE Parsed(ArgumentList(argNodes), b.pos, atRoot)
        ELSE IF arg.failed THEN arg
        ELSE parseArgsLoop(i + 1, "list-separator", Append(argNodes, arg.node),
                           toks, arg.pos, arg.atRoot)

parseArgs(toks, pos, atRoot) ==
    parseArgsLoop(0, "parentheses-start", <<>>, toks, pos, atRoot)

\* The parser function of the given name, called where the parser stands:
\* the function a level hands to parseBinaryExpression and
\* parseLeftUnaryExpression as childNodeParser, and every call of one
\* parser function by another.
childNodeParser(name, toks, pos, atRoot) ==
    CASE name = "parseRootExpression" -> parseRootExpression(toks, pos, atRoot)
      [] name = "parseConditionalOr" -> parseConditionalOr(toks, pos, atRoot)
      [] name = "parseConditionalAnd" -> parseConditionalAnd(toks, pos, atRoot)
      [] name = "parseConditionalNot" -> parseConditionalNot(toks, pos, atRoot)
      [] name = "parseComparisonExpression" -> parseComparisonExpression(toks, pos, atRoot)
      [] name = "parseAdditionSubtraction" -> parseAdditionSubtraction(toks, pos, atRoot)
      [] name = "parseMultiplicationDivision" ->
            parseMultiplicationDivision(toks, pos, atRoot)
      [] name = "parseExponents" -> parseExponents(toks, pos, atRoot)
      [] name = "parseParentheses" -> parseParentheses(toks, pos, atRoot)
      [] name = "parseNegationOperation" -> parseNegationOperation(toks, pos, atRoot)
      [] name = "parseValueOrAccessExpression" ->
            parseValueOrAccessExpression(toks, pos, atRoot)
      [] name = "parseIdentifierOrFunction" -> parseIdentifierOrFunction(toks, pos, atRoot)
      [] name = "parseArgs" -> parseArgs(toks, pos, atRoot)

\* The loop of parseBinaryExpression; root is what has been parsed so far.
parseBinaryLoop(supportedOperators, child, toks, root) ==
    LET tok == CurrentToken(toks, root.pos)
        withOperator(operatorToken) ==
            LET right == childNodeParser(child, toks, operatorToken.pos, root.atRoot)
            IN  IF operatorToken.err.kind # "none"
                THEN Failed(operatorToken.err, operatorToken.pos, root.atRoot)
                ELSE IF right.failed THEN right
                ELSE parseBinaryLoop(supportedOperators, child, toks,
                         Parsed(BinaryOperation(root.node, operatorToken.op, right.node),
                                right.pos, right.atRoot))
    IN  IF ~IsNil(tok) /\ sliceContains(supportedOperators, tok.TokenID)
        THEN withOperator(parseMathOperator(toks, root.pos))
        ELSE root

\* parseBinaryExpression; root is what its first call of childNodeParser,
\* the parser function child, returns where the parser stands.
parseBinaryExpression(supportedOperators, child, toks, root) ==
    IF root.failed THEN root
    ELSE parseBinaryLoop(supportedOperators, child, toks, root)

\* parseLeftUnaryExpression; childResult is what childNodeParser returns
\* where the parser stands, used when no operator of the level is there.
parseLeftUnaryExpression(supportedOperators, toks, pos, atRoot, childResult) ==
    LET tok == CurrentToken(toks, pos)
        withOperator(operation) ==
            LET subNode == childNodeParser("parseRootExpression", toks, operation.pos,
                                           atRoot)
            IN  IF operation.err.kind # "none"
                THEN Failed(operation.err, operation.pos, atRoot)
                ELSE IF subNode.failed THEN subNode
                ELSE Parsed(UnaryOperation(operation.op, subNode.node),
                            subNode.pos, subNode.atRoot)
    IN  IF ~IsNil(tok) /\ ~sliceContains(supportedOperators, tok.TokenID)
        THEN childResult
        ELSE IF IsNil(tok)
        THEN Failed(InvalidGrammarError(tok, <<>>), pos, atRoot)
        ELSE withOperator(parseMathOperator(toks, pos))

parseRootExpression(toks, pos, atRoot) == childNodeParser("parseConditionalOr", toks, pos, atRoot)

\* The operator tokens of the binary levels.
orOperators == <<"or">>
andOperators == <<"and">>
comparisonOperators == <<"greater-than", "less-than", "not", "equals-sign">>
additionSubtractionOperators == <<"plus", "negation-sign">>
multiplicationDivisionOperators == <<"asterisk", "divide", "mod">>
exponentOperators == <<"power">>

\* A binary level starts by calling its child parser, which starts by
\* calling its own. The levels below are written out innermost call first:
\* each after... definition takes the result of one level's loop and, unless
\* level is the function that ends there, goes on with the loop of the
\* function that called it.
afterConditionalAnd(level, toks, conditionalAnd) ==
    IF level = "parseConditionalAnd" \/ conditionalAnd.failed THEN conditionalAnd
    ELSE parseBinaryExpression(orOperators, "parseConditionalAnd", toks, conditionalAnd)

afterConditionalNot(level, toks, conditionalNot) ==
    IF conditionalNot.failed THEN conditionalNot
    ELSE afterConditionalAnd(level, toks,
             parseBinaryExpression(andOperators, "parseConditionalNot", toks,
                                   conditionalNot))

parseConditionalOr(toks, pos, atRoot) ==
    afterConditionalNot("parseConditionalOr", toks,
                        childNodeParser("parseConditionalNot", toks, pos, atRoot))

parseConditionalAnd(toks, pos, atRoot) ==
    afterConditionalNot("parseConditionalAnd", toks,
                        childNodeParser("parseConditionalNot", toks, pos, atRoot))

parseConditionalNot(toks, pos, atRoot) ==
    parseLeftUnaryExpression(<<"not">>, toks, pos, atRoot,
                             childNodeParser("parseComparisonExpression", toks, pos, atRoot))

afterAdditionSubtraction(level, toks, additionSubtraction) ==
    IF level = "parseAdditionSubtraction" \/ additionSubtraction.failed
    THEN additionSubtraction
    ELSE parseBinaryExpression(comparisonOperators, "parseAdditionSubtraction", toks,
                               additionSubtraction)

afterMultiplicationDivision(level, toks, multiplicationDivision) ==
    IF level = "parseMultiplicationDivision" \/ multiplicationDivision.failed
    THEN multiplicationDivision
    ELSE afterAdditionSubtraction(level, toks,
             parseBinaryExpression(additionSubtractionOperators,
                                   "parseMultiplicationDivision", toks,
                                   multiplicationDivision))

afterExponents(level, toks, exponents) ==
    IF level = "parseExponents" \/ exponents.failed THEN exponents
    ELSE afterMultiplicationDivision(level, toks,
             parseBinaryExpression(multiplicationDivisionOperators, "parseExponents",
                                   toks, exponents))

afterParentheses(level, toks, parentheses) ==
    IF parentheses.failed THEN parentheses
    ELSE afterExponents(level, toks,
             parseBinaryExpression(exponentOperators, "parseParentheses", toks,
                                   parentheses))

parseComparisonExpression(toks, pos, atRoot) ==
    afterParentheses("parseComparisonExpression", toks,
                     childNodeParser("parseParentheses", toks, pos, atRoot))

parseAdditionSubtraction(toks, pos, atRoot) ==
    afterParentheses("parseAdditionSubtraction", toks,
                     childNodeParser("parseParentheses", toks, pos, atRoot))

parseMultiplicationDivision(toks, pos, atRoot) ==
    afterParentheses("parseMultiplicationDivision", toks,
                     childNodeParser("parseParentheses", toks, pos, atRoot))

parseExponents(toks, pos, atRoot) ==
    afterParentheses("parseExponents", toks,
                     childNodeParser("parseParentheses", toks, pos, atRoot))

parseParentheses(toks, pos, atRoot) ==
    LET tok == CurrentToken(toks, pos)
        a == advanceToken(toks, pos)
        node == childNodeParser("parseRootExpression", toks, a.pos, atRoot)
        e == eat(toks, node.pos, <<"parentheses-end">>)
    IN  IF ~IsNil(tok) /\ tok.TokenID # "parentheses-start"
        THEN childNodeParser("parseNegationOperation", toks, pos, atRoot)
        ELSE IF IsNil(tok) THEN Failed(Panic("nil pointer dereference"), pos, atRoot)
        ELSE IF a.err.kind # "none" THEN Failed(a.err, a.pos, atRoot)
        ELSE IF node.failed THEN node
        ELSE IF e.err.kind # "none" THEN Failed(e.err, e.pos, node.atRoot)
        ELSE Parsed(node.node, e.pos, node.atRoot)

parseNegationOperation(toks, pos, atRoot) ==
    parseLeftUnaryExpression(<<"negation-sign">>, toks, pos, atRoot,
                             childNodeParser("parseValueOrAccessExpression", toks, pos, atRoot))

parseValueOrAccessExpression(toks, pos, atRoot) ==
    LET tok == CurrentToken(toks, pos)
        id == tok.TokenID
        afterLiteral(literal) ==
            LET after == CurrentToken(toks, literal.pos)
            IN  IF literal.failed THEN literal
                ELSE IF IsNil(after) THEN literal
                ELSE CASE after.TokenID = "parentheses-start" ->
                            Failed(Errorf("function call must start with an identifier; got %q after %q",
                                          <<after.Value, literal.node>>, NoErr),
                                   literal.pos, FALSE)
                       [] after.TokenID = "object-access" ->
                            Failed(Errorf("dot notation cannot follow a literal; got %q after %q",
                                          <<after.Value, literal.node>>, NoErr),
                                   literal.pos, FALSE)
                       [] after.TokenID = "map-delimiter-start" ->
                            Failed(Errorf("bracket access cannot follow a literal; got %q after %q",
                                          <<after.Value, literal.node>>, NoErr),
                                   literal.pos, FALSE)
                       [] OTHER -> literal
    IN  IF IsNil(tok) \/ ~sliceContains(validStartTokens, id)
        THEN Failed(InvalidGrammarError(tok, validStartTokens), pos, atRoot)
        ELSE IF atRoot /\ id = "current-object-access"
        THEN Failed(InvalidGrammarError(tok, <<"root-access", "identifier">>), pos, atRoot)
        ELSE IF ~sliceContains(literalTokens, id)
        THEN childNodeParser("parseIdentifierOrFunction", toks, pos, FALSE)
        ELSE afterLiteral(CASE id = "string" -> parseStringLiteral(toks, pos, FALSE)
                            [] id = "int" -> parseIntLiteral(toks, pos, FALSE)
                            [] id = "float" -> parseFloatLiteral(toks, pos, FALSE)
                            [] id = "boolean" -> parseBooleanLiteral(toks, pos, FALSE))

parseIdentifierOrFunction(toks, pos, atRoot) ==
    LET firstNode == Identifier(CurrentToken(toks, pos).Value)
        a == advanceToken(toks, pos)
        chainableNode == parseFunctionArgs(firstNode, toks, a.pos, atRoot)
    IN  IF a.err.kind # "none" THEN Failed(a.err, a.pos, atRoot)
        ELSE IF chainableNode.failed THEN chainableNode
        ELSE IF IsNil(CurrentToken(toks, chainableNode.pos)) THEN chainableNode
        ELSE parseChainedAccess(chainableNode.node, toks, chainableNode.pos,
                                chainableNode.atRoot)

parseFunctionArgs(precedingNode, toks, pos, atRoot) ==
    LET tok == CurrentToken(toks, pos)
        argList == childNodeParser("parseArgs", toks, pos, atRoot)
    IN  IF IsNil(tok) \/ tok.TokenID # "parentheses-start"
        THEN Parsed(precedingNode, pos, atRoot)
        ELSE IF argList.failed THEN argList
        ELSE Parsed(FunctionCall(precedingNode, argList.node), argList.pos, argList.atRoot)

\* One turn of the loop of parseChainedAccess; rootNode is its currentNode.
parseChainedAccess(rootNode, toks, pos, atRoot) ==
    LET tok == CurrentToken(toks, pos)
        a == advanceToken(toks, pos)
        afterIdentifier(accessingIdentifier) ==
            IF accessingIdentifier.failed THEN accessingIdentifier
            ELSE parseChainedAccess(DotNotation(rootNode, accessingIdentifier.node),
                                    toks, accessingIdentifier.pos, atRoot)
        afterBracketAccess(parsedMapAccess) ==
            IF parsedMapAccess.failed THEN parsedMapAccess
            ELSE parseChainedAccess(parsedMapAccess.node, toks, parsedMapAccess.pos,
                                    parsedMapAccess.atRoot)
    IN  IF IsNil(tok) THEN Parsed(rootNode, pos, atRoot)
        ELSE CASE tok.TokenID = "object-access" ->
                    IF a.err.kind # "none" THEN Failed(a.err, a.pos, atRoot)
                    ELSE afterIdentifier(parseIdentifier(toks, a.pos, atRoot))
               [] tok.TokenID = "map-delimiter-start" ->
                    afterBracketAccess(parseBracketAccess(rootNode, toks, pos, atRoot))
               [] OTHER -> Parsed(rootNode, pos, atRoot)

\* ParseExpression without the test that no token is left after the root
\* expression.
lenientParseExpression(toks) ==
    LET a == advanceToken(toks, 0)
        afterRootExpression(node) ==
            IF node.failed THEN [err |-> node.err, node |-> NilNode]
            ELSE [err |-> NoErr, node |-> node.node]
    IN  IF a.err.kind # "none" THEN [err |-> a.err, node |-> NilNode]
        ELSE afterRootExpression(childNodeParser("parseRootExpression", toks, a.pos, TRUE))

\* ParseExpression on the tokens of one expression: [err, node].
ParseExpression(toks) ==
    LET a == advanceToken(toks, 0)
        afterRootExpression(node) ==
            LET tok == CurrentToken(toks, node.pos)
            IN  IF node.failed THEN [err |-> node.err, node |-> NilNode]
                ELSE IF ~IsNil(tok)
                THEN [err |-> InvalidGrammarErrorEnd(tok), node |-> NilNode]
                ELSE [err |-> NoErr, node |-> node.node]
    IN  IF a.err.kind # "none" THEN [err |-> a.err, node |-> NilNode]
        ELSE afterRootExpression(childNodeParser("parseRootExpression", toks, a.pos, TRUE))

\* InitParser, which returns no error, followed by ParseExpression.
Parse(expression) == ParseExpression(Tokenize(expression))

(***************************************************************************)
(* The printable form of the AST                                           *)
(***************************************************************************)
\* The division sign U+00F7, written as one model character.
DivisionSignChar == "<DIV>"

Chars2(a, b) == <<a, b>>

\* strconv.FormatInt(n, 10).
RECURSIVE FormatNat(_)
FormatNat(n) ==
    IF n < 10 THEN <<DigitChar(n)>> ELSE Append(FormatNat(n \div 10), DigitChar(n % 10))

FormatInt(n) == IF n < 0 THEN <<"-">> \o FormatNat(0 - n) ELSE FormatNat(n)

\* The last k digits of n, with leading zeros.
RECURSIVE FormatFraction(_, _)
FormatFraction(n, k) ==
    IF k = 0 THEN <<>> ELSE Append(FormatFraction(n \div 10, k - 1), DigitChar(n % 10))

\* strconv.FormatFloat(v, 'f', -1, 64) of the float64 mant / 10^scale.
FormatFloat(v) ==
    IF v.scale = 0 THEN FormatNat(v.mant)
    ELSE FormatNat(v.mant \div Pow10(v.scale)) \o <<".">>
         \o FormatFraction(v.mant % Pow10(v.scale), v.scale)

FormatBool(b) == IF b THEN <<"t", "r", "u", "e">> ELSE <<"f", "a", "l", "s", "e">>

\* MathOperationType.String.
MathOperationTypeString(e) ==
    CASE e = "Invalid" -> <<"I", "N", "V", "A", "L", "I", "D">>
      [] e = "Add" -> <<"+">>
      [] e = "Subtract" -> <<"-">>
      [] e = "Multiply" -> <<"*">>
      [] e = "Divide" -> <<DivisionSignChar>>
      [] e = "Modulus" -> <<"%">>
      [] e = "Power" -> <<"^">>
      [] e = "EqualTo" -> Chars2("=", "=")
      [] e = "NotEqualTo" -> Chars2("!", "=")
      [] e = "GreaterThan" -> <<">">>
      [] e = "LessThan" -> <<"<">>
      [] e = "GreaterThanEqualTo" -> Chars2(">", "=")
      [] e = "LessThanEqualTo" -> Chars2("<", "=")
      [] e = "And" -> Chars2("&", "&")
      [] e = "Or" -> Chars2("|", "|")
      [] e = "Not" -> <<"!">>

\* Node.String of every node type.
RECURSIVE NodeString(_)
RECURSIVE ArgumentListString(_, _)
ArgumentListString(args, i) ==
    IF i > Len(args) THEN <<>>
    ELSE (IF i = 1 THEN <<>> ELSE Chars2(",", " "))
         \o NodeString(args[i]) \o ArgumentListString(args, i + 1)

NodeString(n) ==
    CASE n.kind = "StringLiteral" -> <<"\"">> \o n.StrValue \o <<"\"">>
      [] n.kind = "IntLiteral" -> FormatInt(n.IntValue)
      [] n.kind = "FloatLiteral" -> FormatFloat(n.FloatValue)
      [] n.kind = "BooleanLiteral" -> FormatBool(n.BooleanValue)
      [] n.kind = "Identifier" -> n.IdentifierName
      [] n.kind = "BracketAccessor" ->
            NodeString(n.LeftNode) \o <<"[">> \o NodeString(n.RightExpression) \o <<"]">>
      [] n.kind = "DotNotation" ->
            NodeString(n.LeftAccessibleNode) \o <<".">>
            \o NodeString(n.RightAccessIdentifier)
      [] n.kind = "FunctionCall" ->
            NodeString(n.FuncIdentifier) \o <<"(">>
            \o NodeString(n.ArgumentInputs) \o <<")">>
      [] n.kind = "ArgumentList" -> ArgumentListString(n.Arguments, 1)
      [] n.kind = "BinaryOperation" ->
            <<"(">> \o NodeString(n.LeftNode) \o Chars2(")", " ")
            \o MathOperationTypeString(n.Operation) \o Chars2(" ", "(")
            \o NodeString(n.RightNode) \o <<")">>
      [] n.kind = "UnaryOperation" ->
            MathOperationTypeString(n.LeftOperation) \o <<"(">>
            \o NodeString(n.RightNode) \o Chars2(")", " ")

(***************************************************************************)
(* Run-time values                                                         *)
(***************************************************************************)
\* A Go value with its dynamic type t.  A map is a map[string]any, a slice
\* a []any, as in the data of the evaluation tests.
GoInt64(n) == [t |-> "int64", v |-> n]
GoString(chars) == [t |-> "string", v |-> chars]
GoBool(b) == [t |-> "bool", v |-> b]
GoMap(f) == [t |-> "map", v |-> f]
GoSlice(items) == [t |-> "slice", v |-> items]
GoNil == [t |-> "nil"]

RECURSIVE GCD(_, _)
GCD(a, b) == IF b = 0 THEN a ELSE GCD(b, a % b)

\* A float64: a sign bit and, when finite, the magnitude num / den in lowest
\* terms.  The inputs of the model keep every finite result exact.
GoFloat64(neg, num, den) ==
    [t |-> "float64", class |-> "finite", neg |-> neg,
     num |-> num \div GCD(num, den), den |-> den \div GCD(num, den)]
Inf(neg) == [t |-> "float64", class |-> "inf", neg |-> neg, num |-> 0, den |-> 1]
NaN == [t |-> "float64", class |-> "nan", neg |-> FALSE, num |-> 0, den |-> 1]

IsZero(x) == x.class = "finite" /\ x.num = 0
Signed(x) == IF x.neg THEN 0 - x.num ELSE x.num
Abs(n) == IF n < 0 THEN 0 - n ELSE n

RECURSIVE IntPow(_, _)
IntPow(a, b) == IF b <= 0 THEN 1 ELSE a * IntPow(a, b - 1)

\* Go's integer division and remainder: the quotient truncates toward zero.
TruncDiv(a, b) ==
    IF (a < 0) = (b < 0) THEN Abs(a) \div Abs(b) ELSE 0 - (Abs(a) \div Abs(b))
TruncMod(a, b) == a - b * TruncDiv(a, b)

NegFloat(x) == IF x.class = "nan" THEN x ELSE [x EXCEPT !.neg = ~x.neg]

AddFloat(a, b) ==
    IF a.class = "nan" \/ b.class = "nan" THEN NaN
    ELSE IF a.class = "inf"
         THEN IF b.class = "inf" /\ a.neg # b.neg THEN NaN ELSE a
    ELSE IF b.class = "inf" THEN b
    ELSE LET sum == Signed(a) * b.den + Signed(b) * a.den
         IN  IF sum = 0 THEN GoFloat64(a.neg /\ b.neg, 0, 1)
             ELSE GoFloat64(sum < 0, Abs(sum), a.den * b.den)

MulFloat(a, b) ==
    IF a.class = "nan" \/ b.class = "nan" THEN NaN
    ELSE IF (a.class = "inf" /\ IsZero(b)) \/ (b.class = "inf" /\ IsZero(a)) THEN NaN
    ELSE IF a.class = "inf" \/ b.class = "inf" THEN Inf(a.neg # b.neg)
    ELSE GoFloat64(a.neg # b.neg, a.num * b.num, a.den * b.den)

DivFloat(a, b) ==
    IF a.class = "nan" \/ b.class = "nan" THEN NaN
    ELSE IF (a.class = "inf" /\ b.class = "inf") \/ (IsZero(a) /\ IsZero(b)) THEN NaN
    ELSE IF a.class = "inf" \/ IsZero(b) THEN Inf(a.neg # b.neg)
    ELSE IF b.class = "inf" THEN GoFloat64(a.neg # b.neg, 0, 1)
    ELSE GoFloat64(a.neg # b.neg, a.num * b.den, a.den * b.num)

\* math.Mod: the remainder has the sign of x.
ModFloat(x, y) ==
    IF x.class # "finite" \/ y.class = "nan" \/ IsZero(y) THEN NaN
    ELSE IF y.class = "inf" THEN x
    ELSE LET q == (x.num * y.den) \div (x.den * y.num)
         IN  GoFloat64(x.neg, x.num * y.den - q * y.num * x.den, x.den * y.den)

\* math.Pow for a finite base and an integral exponent, the only case the
\* inputs of the model reach with float64 operands.
PowFloat(x, y) ==
    LET odd == y.num % 2 = 1
    IN  IF y.num = 0 THEN GoFloat64(FALSE, 1, 1)
        ELSE IF ~y.neg
        THEN GoFloat64(x.neg /\ odd, IntPow(x.num, y.num), IntPow(x.den, y.num))
        ELSE IF IsZero(x) THEN Inf(x.neg /\ odd)
        ELSE GoFloat64(x.neg /\ odd, IntPow(x.den, y.num), IntPow(x.num, y.num))

EqualFloat(a, b) ==
    /\ a.class # "nan" /\ b.class # "nan"
    /\ \/ IsZero(a) /\ IsZero(b)
       \/ a = b

LessFloat(a, b) ==
    /\ a.class # "nan" /\ b.class # "nan"
    /\ ~EqualFloat(a, b)
    /\ IF a.class = "inf" THEN a.neg
       ELSE IF b.class = "inf" THEN ~b.neg
       ELSE Signed(a) * b.den < Signed(b) * a.den

\* T(math.Pow(float64(a), float64(b))) for int64 operands.  For a = 0 and
\* b < 0 the conversion of +Inf is implementation-dependent; no input of the
\* model applies ^ to a zero base with a negative exponent.
PowInt(a, b) ==
    CASE b >= 0 -> IntPow(a, b)
      [] b < 0 /\ a = 1 -> 1
      [] b < 0 /\ a = 0 - 1 -> IF b % 2 = 0 THEN 1 ELSE 0 - 1
      [] b < 0 /\ Abs(a) > 1 -> 0

\* The characters of the model in the order of their byte values.
ByteOrder ==
    <<BackspaceChar, TabChar, NewlineChar, ReturnChar, " ", "!", "\"", "$", "%", "&",
      "'", "(", ")", "*", "+", ",", "-", ".", "/",
      "0", "1", "2", "3", "4", "5", "6", "7", "8", "9", ":", "<", "=", ">", "?", "@",
      "[", "\\", "]", "^", "_", BackQuoteChar,
      "a", "b", "c", "d", "e", "f", "g", "h", "i", "j", "k", "l", "m", "n", "o",
      "p", "q", "r", "s", "t", "u", "v", "w", "x", "y", "z", "|", DivisionSignChar>>

ByteOf(c) == CHOOSE i \in 1..Len(ByteOrder) : ByteOrder[i] = c

\* Go's < on strings.
RECURSIVE LessString(_, _)
LessString(a, b) ==
    IF Len(b) = 0 THEN FALSE
    ELSE IF Len(a) = 0 THEN TRUE
    ELSE IF a[1] = b[1] THEN LessString(Tail(a), Tail(b))
    ELSE ByteOf(a[1]) < ByteOf(b[1])

(***************************************************************************)
(* Evaluator                                                               *)
(***************************************************************************)
\* The result of an evaluation step: a value, an error or a panic.  at is
\* the path of the value inside the root data (known = FALSE for a value
\* that was computed), reads the lookups inside the root data that
\* succeeded: the path of each and whether an identifier made it.
Value(val, known, at, reads) ==
    [kind |-> "value", val |-> val, known |-> known, at |-> at, reads |-> reads]
Computed(val, reads) == Value(val, FALSE, <<>>, reads)
EvalError(msg, reads) == [kind |-> "error", msg |-> msg, reads |-> reads]
EvalPanic(msg, reads) == [kind |-> "panic", msg |-> msg, reads |-> reads]
\* An error made by fmt.Errorf: the format and the values it prints.
EvalErrorf(format, args, reads) ==
    [kind |-> "error", msg |-> format, args |-> args, reads |-> reads]

\* The result r with the lookups made before it.
After(reads, r) == [r EXCEPT !.reads = reads \o r.reads]

\* ValueLiteral.Value of the four literal nodes.
LiteralValue(n) ==
    CASE n.kind = "StringLiteral" -> GoString(n.StrValue)
      [] n.kind = "IntLiteral" -> GoInt64(n.IntValue)
      [] n.kind = "FloatLiteral" ->
            GoFloat64(FALSE, n.FloatValue.mant, Pow10(n.FloatValue.scale))
      [] n.kind = "BooleanLiteral" -> GoBool(n.BooleanValue)

ComparisonOperations ==
    {"EqualTo", "NotEqualTo", "GreaterThan", "LessThan", "GreaterThanEqualTo",
     "LessThanEqualTo"}

\* The six comparisons, from equality and the strict order of the type.
Compare(operation, eq, lt, gt) ==
    CASE operation = "EqualTo" -> eq
      [] operation = "NotEqualTo" -> ~eq
      [] operation = "GreaterThan" -> gt
      [] operation = "LessThan" -> lt
      [] operation = "GreaterThanEqualTo" -> gt \/ eq
      [] operation = "LessThanEqualTo" -> lt \/ eq

\* evalNumericalOperation instantiated at int64.
evalNumericalOperationInt(a, b, operation) ==
    CASE operation = "Add" -> Computed(GoInt64(a + b), <<>>)
      [] operation = "Subtract" -> Computed(GoInt64(a - b), <<>>)
      [] operation = "Multiply" -> Computed(GoInt64(a * b), <<>>)
      [] operation = "Divide" ->
            IF b = 0 THEN EvalPanic("runtime error: integer divide by zero", <<>>)
            ELSE Computed(GoInt64(TruncDiv(a, b)), <<>>)
      [] operation = "Modulus" ->
            IF b = 0 THEN EvalPanic("runtime error: integer divide by zero", <<>>)
            ELSE Computed(GoInt64(TruncMod(a, b)), <<>>)
      [] operation = "Power" -> Computed(GoInt64(PowInt(a, b)), <<>>)
      [] operation \in ComparisonOperations ->
            Computed(GoBool(Compare(operation, a = b, a < b, a > b)), <<>>)
      [] operation \in {"And", "Or"} ->
            EvalError("attempted logical operation on numeric input", <<>>)
      [] operation = "Invalid" -> EvalPanic("invalid operation encountered", <<>>)
      [] OTHER -> EvalPanic("numeric eval missing case for logical operation", <<>>)

\* evalNumericalOperation instantiated at float64.
evalNumericalOperationFloat(a, b, operation) ==
    CASE operation = "Add" -> Computed(AddFloat(a, b), <<>>)
      [] operation = "Subtract" -> Computed(AddFloat(a, NegFloat(b)), <<>>)
      [] operation = "Multiply" -> Computed(MulFloat(a, b), <<>>)
      [] operation = "Divide" -> Computed(DivFloat(a, b), <<>>)
      [] operation = "Modulus" -> Computed(ModFloat(a, b), <<>>)
      [] operation = "Power" -> Computed(PowFloat(a, b), <<>>)
      [] operation \in ComparisonOperations ->
            Computed(GoBool(Compare(operation, EqualFloat(a, b), LessFloat(a, b),
                                    LessFloat(b, a))), <<>>)
      [] operation \in {"And", "Or"} ->
            EvalError("attempted logical operation on numeric input", <<>>)
      [] operation = "Invalid" -> EvalPanic("invalid operation encountered", <<>>)
      [] OTHER -> EvalPanic("numeric eval missing case for logical operation", <<>>)

evalBooleanOperation(a, b, operation) ==
    CASE operation = "EqualTo" -> Computed(GoBool(a = b), <<>>)
      [] operation = "NotEqualTo" -> Computed(GoBool(a # b), <<>>)
      [] operation = "And" -> Computed(GoBool(a /\ b), <<>>)
      [] operation = "Or" -> Computed(GoBool(a \/ b), <<>>)
      [] operation \in {"Power", "Modulus", "Divide", "Multiply", "Subtract", "Add",
                        "GreaterThan", "LessThan", "GreaterThanEqualTo",
                        "LessThanEqualTo"} ->
            EvalError("attempted to perform invalid operation on boolean", <<>>)
      [] operation = "Invalid" -> EvalPanic("invalid operation encountered", <<>>)
      [] OTHER -> EvalPanic("boolean eval missing case for logical operation", <<>>)

evalStringOperation(a, b, operation) ==
    CASE operation = "Add" -> Computed(GoString(a \o b), <<>>)
      [] operation \in ComparisonOperations ->
            Computed(GoBool(Compare(operation, a = b, LessString(a, b),
                                    LessString(b, a))), <<>>)
      [] operation \in {"Subtract", "Multiply", "Divide", "Modulus", "Power", "And",
                        "Or"} ->
            EvalError("string operations do not support operator", <<>>)
      [] operation = "Invalid" -> EvalPanic("invalid operation encountered", <<>>)
      [] OTHER -> EvalPanic("string eval missing case for logical operation", <<>>)

\* The type switch at the end of evaluateBinaryOperation, on operands of
\* one dynamic type.
dispatchBinaryOperation(left, right, operation) ==
    CASE left.t = "int64" -> evalNumericalOperationInt(left.v, right.v, operation)
      [] left.t = "float64" -> evalNumericalOperationFloat(left, right, operation)
      [] left.t = "string" -> evalStringOperation(left.v, right.v, operation)
      [] left.t = "bool" -> evalBooleanOperation(left.v, right.v, operation)
      [] OTHER -> EvalError("unsupported type to perform binary operation on", <<>>)

\* The functions of the evaluation and resolution tests, under short
\* registry names: f is strToStrFunc, g is twoIntToIntFunc, h is strFunc, i
\* is the identity function of dynamic type, and e is a function without
\* parameters whose handler returns an error.
FunctionNames == {<<"f">>, <<"g">>, <<"h">>, <<"i">>, <<"e">>}

\* The TypeID of each parameter of a function of the registry.
FunctionParameters(name) ==
    CASE name = <<"f">> -> <<"string">>
      [] name = <<"g">> -> <<"integer", "integer">>
      [] name = <<"h">> -> <<>>
      [] name = <<"i">> -> <<"any">>
      [] name = <<"e">> -> <<>>

\* The dynamic type a parameter of the given TypeID takes.
GoTypeOf(typeID) ==
    CASE typeID = "string" -> "string"
      [] typeID = "integer" -> "int64"
      [] typeID = "float" -> "float64"
      [] typeID = "bool" -> "bool"

\* The record of a call of a function of the registry, kept with the
\* lookups of an evaluation.
Called(name, args) ==
    <<[at |-> <<name>>, identifier |-> FALSE, call |-> TRUE, args |-> args]>>

\* CallableFunction.Call on as many arguments as the function has
\* parameters: the handler's result, or the error of an argument that is
\* not of the parameter's type.
CallFunction(name, args) ==
    IF \E i \in 1..Len(args) :
          /\ FunctionParameters(name)[i] # "any"
          /\ args[i].t # GoTypeOf(FunctionParameters(name)[i])
    THEN EvalError("function call failed", Called(name, args))
    ELSE CASE name = <<"f">> -> Computed(args[1], Called(name, args))
           [] name = <<"g">> -> Computed(GoInt64(args[1].v * args[2].v), Called(name, args))
           [] name = <<"h">> -> Computed(GoString(<<"t", "e", "s", "t">>), Called(name, args))
           [] name = <<"i">> -> Computed(args[1], Called(name, args))
           [] name = <<"e">> -> EvalError("handler failed", Called(name, args))

\* The text of a map key or slice index inside a path.
KeyText(mapKey) == IF mapKey.t = "int64" THEN FormatInt(mapKey.v) ELSE mapKey.v

evaluateMapAccess(data, mapKey) ==
    LET d == data.val
        at == Append(data.at, KeyText(mapKey))
        Found(val) == Value(val, data.known, at,
                            IF data.known
                            THEN <<[at |-> at, identifier |-> FALSE, call |-> FALSE]>>
                            ELSE <<>>)
    IN  CASE d.t = "map" ->
              IF mapKey.t # "string"
              THEN EvalPanic("reflect.Value.MapIndex: value is not assignable to type string",
                             <<>>)
              ELSE IF mapKey.v \notin DOMAIN d.v THEN EvalError("map key not found", <<>>)
              ELSE Found(d.v[mapKey.v])
          [] d.t = "slice" ->
              IF mapKey.t # "int64"
              THEN EvalErrorf("unsupported slice index type '%T', expected int64",
                              <<mapKey.t>>, <<>>)
              ELSE IF Len(d.v) <= mapKey.v
              THEN EvalErrorf("index %d is larger than the list items length (%d)",
                              <<mapKey.v, Len(d.v)>>, <<>>)
              ELSE IF mapKey.v < 0
              THEN EvalErrorf("invalid index (%d); must be non-negative integer",
                              <<mapKey.v>>, <<>>)
              ELSE Found(d.v[mapKey.v + 1])
          [] OTHER -> EvalError("cannot evaluate identifier on a value of this kind", <<>>)

RECURSIVE evaluate(_, _, _)
RECURSIVE evaluateParameters(_, _, _, _)
RECURSIVE evaluateFuncCall(_, _)
RECURSIVE evaluateBinaryOperation(_, _)
RECURSIVE evaluateUnaryOperation(_, _)
RECURSIVE evaluateDotNotation(_, _, _)
RECURSIVE evaluateBracketAccessor(_, _, _)

evaluateIdentifier(node, data, rootData) ==
    LET r == evaluateMapAccess(data, GoString(node.IdentifierName))
    IN  IF node.IdentifierName = <<"$">> THEN rootData
        ELSE [r EXCEPT !.reads = [i \in DOMAIN @ |-> [@[i] EXCEPT !.identifier = TRUE]]]

\* The binary operation with the right operand taken for a value of the
\* left operand's type when the types differ.
coercedBinaryOperation(node, rootData) ==
    LET leftEval == evaluate(node.LeftNode, rootData, rootData)
        rightEval == evaluate(node.RightNode, rootData, rootData)
        reads == leftEval.reads \o rightEval.reads
    IN  IF leftEval.kind # "value" THEN leftEval
        ELSE IF rightEval.kind # "value" THEN After(leftEval.reads, rightEval)
        ELSE IF rightEval.val.t # leftEval.val.t
        THEN After(reads, dispatchBinaryOperation(leftEval.val, leftEval.val,
                                                  node.Operation))
        ELSE After(reads, dispatchBinaryOperation(leftEval.val, rightEval.val,
                                                  node.Operation))
evaluateBinaryOperation(node, rootData) ==
    LET leftEval == evaluate(node.LeftNode, rootData, rootData)
        rightEval == evaluate(node.RightNode, rootData, rootData)
        reads == leftEval.reads \o rightEval.reads
    IN  IF leftEval.kind # "value" THEN leftEval
        ELSE IF rightEval.kind # "value" THEN After(leftEval.reads, rightEval)
        ELSE IF rightEval.val.t # leftEval.val.t
        THEN EvalError("left type and right type of binary operation do not match", reads)
        ELSE After(reads, dispatchBinaryOperation(leftEval.val, rightEval.val,
                                                  node.Operation))

evaluateUnaryOperation(node, rootData) ==
    LET rightEval == evaluate(node.RightNode, rootData, rootData)
        right == rightEval.val
    IN  IF rightEval.kind # "value" THEN rightEval
        ELSE IF node.LeftOperation = "Subtract"
        THEN CASE right.t = "int64" -> Computed(GoInt64(0 - right.v), rightEval.reads)
               [] right.t = "float64" -> Computed(NegFloat(right), rightEval.reads)
               [] OTHER -> EvalError("unsupported type for arithmetic negation",
                                     rightEval.reads)
        ELSE IF node.LeftOperation = "Not"
        THEN IF right.t # "bool"
             THEN EvalError("unsupported type for boolean complement", rightEval.reads)
             ELSE Computed(GoBool(~right.v), rightEval.reads)
        ELSE EvalError("only unary operators '-' and '!' are currently supported",
                       rightEval.reads)

\* The loop of evaluateParameters from argument i on: the values of the
\* arguments in val, or the first error.
evaluateParameters(args, i, rootData, result) ==
    LET arg == evaluate(args[i], rootData, rootData)
    IN  IF i > Len(args) THEN result
        ELSE IF arg.kind # "value" THEN After(result.reads, arg)
        ELSE evaluateParameters(args, i + 1, rootData,
                 Computed(Append(result.val, arg.val), result.reads \o arg.reads))

evaluateFuncCall(node, rootData) ==
    LET funcID == node.FuncIdentifier.IdentifierName
        evaluatedArgs == evaluateParameters(node.ArgumentInputs.Arguments, 1, rootData,
                                            Computed(<<>>, <<>>))
    IN  IF funcID \notin FunctionNames THEN EvalError("function not found", <<>>)
        ELSE IF evaluatedArgs.kind # "value" THEN evaluatedArgs
        ELSE IF Len(evaluatedArgs.val) # Len(FunctionParameters(funcID))
        THEN EvalError("function called with incorrect number of arguments",
                       evaluatedArgs.reads)
        ELSE After(evaluatedArgs.reads, CallFunction(funcID, evaluatedArgs.val))

evaluateDotNotation(node, data, rootData) ==
    LET leftResult == evaluate(node.LeftAccessibleNode, data, rootData)
    IN  IF leftResult.kind # "value" THEN leftResult
        ELSE After(leftResult.reads,
                   evaluate(node.RightAccessIdentifier, leftResult, rootData))

evaluateBracketAccessor(node, data, rootData) ==
    LET leftResult == evaluate(node.LeftNode, data, rootData)
        mapKey == evaluate(node.RightExpression, leftResult, rootData)
    IN  IF leftResult.kind # "value" THEN leftResult
        ELSE IF mapKey.kind # "value" THEN After(leftResult.reads, mapKey)
        ELSE After(leftResult.reads \o mapKey.reads,
                   evaluateMapAccess(leftResult, mapKey.val))

\* evaluateContext.evaluate; data and rootData are values with their paths.
evaluate(node, data, rootData) ==
    CASE node.kind \in ValueLiteralKinds -> Computed(LiteralValue(node), <<>>)
      [] node.kind = "DotNotation" -> evaluateDotNotation(node, data, rootData)
      [] node.kind = "BracketAccessor" -> evaluateBracketAccessor(node, data, rootData)
      [] node.kind = "Identifier" -> evaluateIdentifier(node, data, rootData)
      [] node.kind = "FunctionCall" -> evaluateFuncCall(node, rootData)
      [] node.kind = "BinaryOperation" -> evaluateBinaryOperation(node, rootData)
      [] node.kind = "UnaryOperation" -> evaluateUnaryOperation(node, rootData)
      [] OTHER -> EvalError("unsupported node type", <<>>)

\* expression.Evaluate on the root data d.
Evaluate(ast, d) ==
    evaluate(ast, Value(d, TRUE, <<<<"$">>>>, <<>>), Value(d, TRUE, <<<<"$">>>>, <<>>))

(***************************************************************************)
(* Schema types and the function registry of the resolver                  *)
(***************************************************************************)
StringSchema == [TypeID |-> "string"]
IntSchema == [TypeID |-> "integer"]
FloatSchema == [TypeID |-> "float"]
BoolSchema == [TypeID |-> "bool"]
AnySchema == [TypeID |-> "any"]
MapSchema(keys, values) == [TypeID |-> "map", Keys |-> keys, Values |-> values]
ListSchema(items) == [TypeID |-> "list", Items |-> items]
\* An object-like type (TypeID "object" or "scope"); properties maps each
\* property name to its type.
ObjectSchema(typeID, id, properties) ==
    [TypeID |-> typeID, ID |-> id, Properties |-> properties]
NilSchema == [TypeID |-> "nil"]

\* Function.Output of the functions of the registry on the types of the
\* arguments.
FunctionOutput(name, argTypes) ==
    CASE name = <<"f">> -> StringSchema
      [] name = <<"g">> -> IntSchema
      [] name = <<"h">> -> StringSchema
      [] name = <<"i">> -> argTypes[1]
      [] name = <<"e">> -> StringSchema

\* paramType.ValidateCompatibility(argType) of the schema package: the
\* argument type has the parameter's TypeID, or the parameter is of type any.
ValidateCompatibility(paramTypeID, argType) ==
    paramTypeID = "any" \/ argType.TypeID = paramTypeID

(***************************************************************************)
(* Paths and path trees                                                    *)
(***************************************************************************)
\* The decimal digits of num / den after the point, for a fraction that
\* terminates.
RECURSIVE FractionDigits(_, _)
FractionDigits(num, den) ==
    IF num = 0 THEN <<>>
    ELSE <<DigitChar((num * 10) \div den)>> \o FractionDigits((num * 10) % den, den)

\* fmt.Sprintf("%v", item) of a path item.
PathItemString(item) ==
    CASE item.t = "string" -> item.v
      [] item.t = "int64" -> FormatInt(item.v)
      [] item.t = "bool" -> FormatBool(item.v)
      [] item.t = "float64" ->
            (IF item.neg THEN <<"-">> ELSE <<>>)
            \o FormatNat(item.num \div item.den)
            \o (IF item.num % item.den = 0 THEN <<>>
                ELSE <<".">> \o FractionDigits(item.num % item.den, item.den))

\* Path.String: the items joined by ".".
RECURSIVE PathString(_)
PathString(path) ==
    IF Len(path) = 0 THEN <<>>
    ELSE IF Len(path) = 1 THEN PathItemString(path[1])
    ELSE PathItemString(path[1]) \o <<".">> \o PathString(Tail(path))

\* Path trees live in a heap: a sequence of nodes whose Subtrees are the
\* indices of their children.  A *PathTree is an index, 0 the nil pointer.
PathTree(item, nodeType) == [PathItem |-> item, NodeType |-> nodeType, Subtrees |-> <<>>]
DataRoot == PathTree(GoString(<<"$">>), "root")

\* path.Subtrees = append(path.Subtrees, child) for a child stored next.
AppendSubtree(heap, path, child) ==
    Append([heap EXCEPT ![path].Subtrees = Append(@, Len(heap) + 1)], child)

UnpackRequirements(excludeData, excludeFunction, stopAtTerminals, includeKeys) ==
    [ExcludeDataRootPaths |-> excludeData, ExcludeFunctionRootPaths |-> excludeFunction,
     StopAtTerminals |-> stopAtTerminals, IncludeKeys |-> includeKeys]

NodeTypes == {"root", "function", "access", "key", "past-terminal"}

\* Whether shouldStop panics: its default case.
shouldStopPanics(nodeType) == nodeType \notin NodeTypes

neverStop(r, nodeType) == FALSE
\* shouldStop on one of the five node types.
shouldStop(r, nodeType) ==
    CASE nodeType = "root" -> r.ExcludeDataRootPaths
      [] nodeType = "function" -> r.ExcludeFunctionRootPaths
      [] nodeType = "past-terminal" -> r.StopAtTerminals
      [] nodeType \in {"access", "key"} -> FALSE

neverSkip(r, nodeType) == FALSE
shouldSkip(r, nodeType) == nodeType = "key" /\ ~r.IncludeKeys

\* What Unpack gives: the paths it returns, or a panic and no paths.
Unpacked(paths) == [panic |-> FALSE, paths |-> paths]
noPathsReturned == [panic |-> FALSE, paths |-> <<>>]
UnpackPanic == [panic |-> TRUE, paths |-> <<>>]

\* PathTree.Unpack of the tree at index p of the heap.
RECURSIVE Unpack(_, _, _)
RECURSIVE UnpackSubtrees(_, _, _, _)
\* What the loop over the subtrees of p collects, from subtree i on.
UnpackSubtrees(heap, p, i, r) ==
    LET subtreeResults == Unpack(heap, heap[p].Subtrees[i], r)
        prefix == IF shouldSkip(r, heap[p].NodeType) THEN <<>> ELSE <<heap[p].PathItem>>
        rest == UnpackSubtrees(heap, p, i + 1, r)
    IN  IF i > Len(heap[p].Subtrees) THEN Unpacked(<<>>)
        ELSE IF subtreeResults.panic THEN UnpackPanic
        ELSE IF rest.panic THEN UnpackPanic
        ELSE Unpacked([k \in 1..Len(subtreeResults.paths) |->
                          prefix \o subtreeResults.paths[k]] \o rest.paths)

unpackSubtreesOnly(heap, p, r) ==
    IF shouldStopPanics(heap[p].NodeType) THEN UnpackPanic
    ELSE IF shouldStop(r, heap[p].NodeType) THEN Unpacked(<<>>)
    ELSE UnpackSubtrees(heap, p, 1, r)
Unpack(heap, p, r) ==
    LET result == UnpackSubtrees(heap, p, 1, r)
    IN  IF shouldStopPanics(heap[p].NodeType) THEN UnpackPanic
        ELSE IF shouldStop(r, heap[p].NodeType) THEN Unpacked(<<>>)
        ELSE IF result.panic THEN UnpackPanic
        ELSE IF Len(result.paths) = 0 /\ ~shouldSkip(r, heap[p].NodeType)
        THEN Unpacked(<<<<heap[p].PathItem>>>>)
        ELSE result

(***************************************************************************)
(* Dependency and type resolver                                            *)
(***************************************************************************)
\* A dependencyResult; the three path fields are indices into the heap.
dependencyResult(type, chainable, rootPath, completed) ==
    [resolvedType |-> type, chainablePath |-> chainable, rootPathResult |-> rootPath,
     completedPaths |-> completed]

\* What a resolver function returns, with the heap after it.
Resolved(res, heap) == [err |-> NoErr, res |-> res, heap |-> heap]
Unresolved(err, heap) ==
    [err |-> err, res |-> dependencyResult(NilSchema, 0, 0, <<>>), heap |-> heap]
ResolveError(msg) == [kind |-> "error", msg |-> msg]

ObjectTypeIDs == {"scope", "ref", "object"}

dependenciesAccessObject(leftType, identifier, path, heap) ==
    CASE leftType.TypeID \in ObjectTypeIDs ->
            IF identifier \notin DOMAIN leftType.Properties
            THEN Unresolved(ResolveError("object does not have a property of that name"),
                            heap)
            ELSE IF path = 0 THEN Unresolved(Panic("nil pointer dereference"), heap)
            ELSE Resolved(dependencyResult(leftType.Properties[identifier],
                                           Len(heap) + 1, path, <<>>),
                          AppendSubtree(heap, path,
                                        PathTree(GoString(identifier), "access")))
      [] leftType.TypeID = "any" ->
            IF path = 0 THEN Unresolved(Panic("nil pointer dereference"), heap)
            ELSE Resolved(dependencyResult(AnySchema, Len(heap) + 1, 0, <<>>),
                          AppendSubtree(heap, path,
                                        PathTree(GoString(identifier), "past-terminal")))
      [] OTHER ->
            Unresolved(ResolveError("cannot evaluate expression identifier on data type"),
                       heap)

identifierDependencies(node, currentType, path, heap, rootType) ==
    IF node.IdentifierName = <<"$">>
    THEN IF path = 0
         THEN Resolved(dependencyResult(rootType, path, Len(heap) + 1, <<>>),
                       Append(heap, DataRoot))
         ELSE IF heap[path].NodeType = "root"
         THEN Resolved(dependencyResult(rootType, path, path, <<>>), heap)
         ELSE Unresolved(ResolveError("root access not at root"), heap)
    ELSE dependenciesAccessObject(currentType, node.IdentifierName, path, heap)

\* addKeyNode: the chainable path after it and the heap.
addKeyNode(node, path, heap) ==
    IF node.kind \notin ValueLiteralKinds THEN [path |-> path, heap |-> heap, panics |-> FALSE]
    ELSE IF path = 0 THEN [path |-> path, heap |-> heap, panics |-> TRUE]
    ELSE [path |-> Len(heap) + 1, panics |-> FALSE,
          heap |-> AppendSubtree(heap, path, PathTree(LiteralValue(node), "key"))]

\* bracketMapDependencies: [err, res].
bracketMapDependencies(leftResult, keyType) ==
    IF keyType.TypeID # leftResult.resolvedType.Keys.TypeID
    THEN [err |-> ResolveError("subexpression evaluates to another type than the map's keys"),
          res |-> dependencyResult(NilSchema, 0, 0, <<>>)]
    ELSE [err |-> NoErr,
          res |-> dependencyResult(leftResult.resolvedType.Values,
                                   leftResult.chainablePath, leftResult.rootPathResult,
                                   <<>>)]

\* bracketListDependencies: [err, res].
bracketListDependencies(leftResult, keyType) ==
    IF keyType.TypeID # "integer"
    THEN [err |-> ResolveError("subexpressions resulted in a type for a list key that is not integer"),
          res |-> dependencyResult(NilSchema, 0, 0, <<>>)]
    ELSE [err |-> NoErr,
          res |-> dependencyResult(leftResult.resolvedType.Items,
                                   leftResult.chainablePath, leftResult.rootPathResult,
                                   <<>>)]

RECURSIVE dependencies(_, _, _, _, _)
RECURSIVE rootDependencies(_, _, _)
RECURSIVE functionArguments(_, _, _, _, _, _)
RECURSIVE functionDependencies(_, _, _)
RECURSIVE dotNotationDependencies(_, _, _, _, _)
RECURSIVE bracketAccessorDependencies(_, _, _, _, _)
RECURSIVE binaryOperationDependencies(_, _, _)
RECURSIVE unaryOperationDependencies(_, _, _)

\* The node resolved on the root type with the path added last, and with a
\* new root path only when there is none.
enclosingPathDependencies(node, heap, rootType) ==
    LET r == IF Len(heap) = 0
             THEN dependencies(node, rootType, 1, <<DataRoot>>, rootType)
             ELSE dependencies(node, rootType, Len(heap), heap, rootType)
    IN  IF IsErr(r) THEN r
        ELSE IF r.res.rootPathResult # 0
        THEN [r EXCEPT !.res.completedPaths = Append(@, r.res.rootPathResult)]
        ELSE r
\* The node resolved on the root type with the root path allocated first,
\* and with a new root path only when there is none.
sharedRootDependencies(node, heap, rootType) ==
    LET r == IF Len(heap) = 0
             THEN dependencies(node, rootType, 1, <<DataRoot>>, rootType)
             ELSE dependencies(node, rootType, 1, heap, rootType)
    IN  IF IsErr(r) THEN r
        ELSE IF r.res.rootPathResult # 0
        THEN [r EXCEPT !.res.completedPaths = Append(@, r.res.rootPathResult)]
        ELSE r
\* rootDependencies: the node resolved on the root type with a new root path.
rootDependencies(node, heap, rootType) ==
    LET newRoot == Len(heap) + 1
        r == dependencies(node, rootType, newRoot, Append(heap, DataRoot), rootType)
    IN  IF IsErr(r) THEN r
        ELSE IF r.res.rootPathResult # 0
        THEN [r EXCEPT !.res.completedPaths = Append(@, r.res.rootPathResult)]
        ELSE r

\* The loop over the arguments without the compatibility check.
RECURSIVE uncheckedArguments(_, _, _, _, _, _)
uncheckedArguments(args, paramTypes, i, acc, heap, rootType) ==
    LET arg == rootDependencies(args[i], heap, rootType)
    IN  IF i > Len(args) THEN Resolved(acc, heap)
        ELSE IF IsErr(arg) THEN Unresolved(arg.err, arg.heap)
        ELSE uncheckedArguments(args, paramTypes, i + 1,
                 [dependencies |-> acc.dependencies \o arg.res.completedPaths,
                  argTypes |-> Append(acc.argTypes, arg.res.resolvedType)],
                 arg.heap, rootType)
\* The loop of functionDependencies over the arguments from argument i on;
\* acc holds the completed paths and the types of the arguments before i.
functionArguments(args, paramTypes, i, acc, heap, rootType) ==
    LET arg == rootDependencies(args[i], heap, rootType)
    IN  IF i > Len(args) THEN Resolved(acc, heap)
        ELSE IF IsErr(arg) THEN Unresolved(arg.err, arg.heap)
        ELSE IF ~ValidateCompatibility(paramTypes[i], arg.res.resolvedType)
        THEN Unresolved(ResolveError("error while validating arg/param type compatibility"),
                        arg.heap)
        ELSE functionArguments(args, paramTypes, i + 1,
                 [dependencies |-> acc.dependencies \o arg.res.completedPaths,
                  argTypes |-> Append(acc.argTypes, arg.res.resolvedType)],
                 arg.heap, rootType)

functionDependencies(node, heap, rootType) ==
    LET funcID == node.FuncIdentifier.IdentifierName
        paramTypes == FunctionParameters(funcID)
        withArguments(args) ==
            IF IsErr(args) THEN Unresolved(args.err, args.heap)
            ELSE Resolved(dependencyResult(FunctionOutput(funcID, args.res.argTypes),
                                           Len(args.heap) + 1, Len(args.heap) + 1,
                                           args.res.dependencies),
                          Append(args.heap, PathTree(GoString(funcID), "function")))
    IN  IF funcID \notin FunctionNames
        THEN Unresolved(ResolveError("could not find function"), heap)
        ELSE IF Len(node.ArgumentInputs.Arguments) # Len(paramTypes)
        THEN Unresolved(ResolveError("invalid call to function: wrong number of arguments"),
                        heap)
        ELSE withArguments(functionArguments(node.ArgumentInputs.Arguments, paramTypes, 1,
                                             [dependencies |-> <<>>, argTypes |-> <<>>],
                                             heap, rootType))

dotNotationDependencies(node, currentType, path, heap, rootType) ==
    LET leftResult == dependencies(node.LeftAccessibleNode, currentType, path, heap,
                                   rootType)
        rightResult == dependencies(node.RightAccessIdentifier,
                                    leftResult.res.resolvedType,
                                    leftResult.res.chainablePath, leftResult.heap,
                                    rootType)
    IN  IF IsErr(leftResult) THEN leftResult
        ELSE IF IsErr(rightResult) THEN rightResult
        ELSE Resolved(dependencyResult(rightResult.res.resolvedType,
                                       rightResult.res.chainablePath,
                                       leftResult.res.rootPathResult,
                                       rightResult.res.completedPaths
                                       \o leftResult.res.completedPaths),
                      rightResult.heap)

bracketAccessorDependencies(node, currentType, path, heap, rootType) ==
    LET leftResult == dependencies(node.LeftNode, currentType, path, heap, rootType)
        keyResult == rootDependencies(node.RightExpression, leftResult.heap, rootType)
        mergedDependencies == leftResult.res.completedPaths
                              \o keyResult.res.completedPaths
        leftTypeID == leftResult.res.resolvedType.TypeID
        overallResult ==
            CASE leftTypeID = "map" ->
                    bracketMapDependencies(leftResult.res, keyResult.res.resolvedType)
              [] leftTypeID = "list" ->
                    bracketListDependencies(leftResult.res, keyResult.res.resolvedType)
              [] OTHER ->
                    [err |-> NoErr,
                     res |-> dependencyResult(AnySchema, leftResult.res.chainablePath,
                                              leftResult.res.rootPathResult, <<>>)]
        keyNode == addKeyNode(node.RightExpression, overallResult.res.chainablePath,
                              keyResult.heap)
    IN  IF IsErr(leftResult) THEN leftResult
        ELSE IF IsErr(keyResult) THEN keyResult
        ELSE IF leftTypeID \in ObjectTypeIDs
        THEN Unresolved(ResolveError("bracket access is not supported for object/scope/ref types"),
                        keyResult.heap)
        ELSE IF leftTypeID \notin {"map", "list", "any"}
        THEN Unresolved(ResolveError("bracket accessor used on a type that cannot be indexed"),
                        keyResult.heap)
        \* The error of the map or list case is not checked before the
        \* result it came with, a nil pointer, is used.
        ELSE IF IsErr(overallResult) \/ keyNode.panics
        THEN Unresolved(Panic("nil pointer dereference"), keyResult.heap)
        ELSE Resolved(dependencyResult(overallResult.res.resolvedType, keyNode.path,
                                       overallResult.res.rootPathResult,
                                       overallResult.res.completedPaths
                                       \o mergedDependencies),
                      keyNode.heap)

\* The types of the operands an operation accepts (resolver rules for
\* binary and unary operations).
ArithmeticOperations == {"Subtract", "Multiply", "Divide", "Modulus", "Power"}
InequalityOperations ==
    {"GreaterThan", "LessThan", "GreaterThanEqualTo", "LessThanEqualTo"}
LogicalOperations == {"And", "Or"}

\* Every operation taken to accept every type and to give the operands' type.
operandTypeAlways(operation, t) == t
\* The result type of a binary operation on two operands of type t, or
\* NilSchema when the operation does not accept the type.
binaryOperationType(operation, t) ==
    CASE operation = "Add" /\ t.TypeID \in {"integer", "float", "string"} -> t
      [] operation \in ArithmeticOperations /\ t.TypeID \in {"integer", "float"} -> t
      [] operation \in {"EqualTo", "NotEqualTo"}
         /\ t.TypeID \in {"integer", "float", "string", "bool"} -> BoolSchema
      [] operation \in InequalityOperations
         /\ t.TypeID \in {"integer", "float", "string"} -> BoolSchema
      [] operation \in LogicalOperations /\ t.TypeID = "bool" -> BoolSchema
      [] OTHER -> NilSchema

binaryOperationDependencies(node, heap, rootType) ==
    LET leftResult == rootDependencies(node.LeftNode, heap, rootType)
        rightResult == rootDependencies(node.RightNode, leftResult.heap, rootType)
        leftType == leftResult.res.resolvedType
        resultType == binaryOperationType(node.Operation, leftType)
    IN  IF IsErr(leftResult) THEN leftResult
        ELSE IF IsErr(rightResult) THEN rightResult
        ELSE IF leftType.TypeID # rightResult.res.resolvedType.TypeID
        THEN Unresolved(ResolveError("types do not match"), rightResult.heap)
        ELSE IF resultType = NilSchema
        THEN Unresolved(ResolveError("incompatible type for operation"), rightResult.heap)
        ELSE Resolved(dependencyResult(resultType, 0, 0,
                                       leftResult.res.completedPaths
                                       \o rightResult.res.completedPaths),
                      rightResult.heap)

unaryOperationDependencies(node, heap, rootType) ==
    LET rightResult == rootDependencies(node.RightNode, heap, rootType)
        rightType == rightResult.res.resolvedType
    IN  IF IsErr(rightResult) THEN rightResult
        ELSE IF node.LeftOperation = "Subtract"
        THEN IF rightType.TypeID \in {"integer", "float"}
             THEN Resolved(dependencyResult(rightType, 0, 0,
                                            rightResult.res.completedPaths),
                           rightResult.heap)
             ELSE Unresolved(ResolveError("non-numeric type"), rightResult.heap)
        ELSE IF node.LeftOperation = "Not"
        THEN IF rightType.TypeID = "bool"
             THEN Resolved(dependencyResult(BoolSchema, 0, 0,
                                            rightResult.res.completedPaths),
                           rightResult.heap)
             ELSE Unresolved(ResolveError("non-boolean type"), rightResult.heap)
        ELSE Unresolved(ResolveError("unsupported unary operation"), rightResult.heap)

\* The node types beside those of the access path: float and boolean
\* literals and the operations.
operationDependencies(node, heap, rootType) ==
    CASE node.kind = "FloatLiteral" ->
            Resolved(dependencyResult(FloatSchema, 0, 0, <<>>), heap)
      [] node.kind = "BooleanLiteral" ->
            Resolved(dependencyResult(BoolSchema, 0, 0, <<>>), heap)
      [] node.kind = "BinaryOperation" -> binaryOperationDependencies(node, heap, rootType)
      [] node.kind = "UnaryOperation" -> unaryOperationDependencies(node, heap, rootType)
      [] OTHER -> Unresolved(ResolveError("unsupported AST node type"), heap)

dependencies(node, currentType, path, heap, rootType) ==
    CASE node.kind = "DotNotation" ->
            dotNotationDependencies(node, currentType, path, heap, rootType)
      [] node.kind = "BracketAccessor" ->
            bracketAccessorDependencies(node, currentType, path, heap, rootType)
      [] node.kind = "Identifier" ->
            identifierDependencies(node, currentType, path, heap, rootType)
      [] node.kind = "StringLiteral" ->
            Resolved(dependencyResult(StringSchema, 0, 0, <<>>), heap)
      [] node.kind = "IntLiteral" ->
            Resolved(dependencyResult(IntSchema, 0, 0, <<>>), heap)
      [] node.kind = "FunctionCall" -> functionDependencies(node, heap, rootType)
      [] OTHER -> operationDependencies(node, heap, rootType)

(***************************************************************************)
(* The expression facade                                                   *)
(***************************************************************************)
\* expression.Type: [err, type].
Type(ast, scope) ==
    LET dependencyResolutionResult == rootDependencies(ast, <<>>, scope)
    IN  [err |-> dependencyResolutionResult.err,
         type |-> dependencyResolutionResult.res.resolvedType]

\* A test that finds no path in the final set.
neverExists(finalDependencies, asString) == FALSE

\* Whether a path with the string form asString is in the final set.
dependencyExists(finalDependencies, asString) ==
    \E i \in 1..Len(finalDependencies) : PathString(finalDependencies[i]) = asString

\* The loop of expression.Dependencies over the unpacked paths from path i
\* on: only paths with a new string form are added.
RECURSIVE uniqueDependencies(_, _, _)
uniqueDependencies(unpackedDependencies, i, finalDependencies) ==
    IF i > Len(unpackedDependencies) THEN finalDependencies
    ELSE uniqueDependencies(unpackedDependencies, i + 1,
             IF dependencyExists(finalDependencies, PathString(unpackedDependencies[i]))
             THEN finalDependencies
             ELSE Append(finalDependencies, unpackedDependencies[i]))

\* The paths of the completed trees from tree i on, unpacked.  The trees
\* of the resolver hold nodes of the five node types only.
RECURSIVE unpackCompletedPaths(_, _, _, _)
unpackCompletedPaths(heap, completedPaths, i, unpackRequirements) ==
    IF i > Len(completedPaths) THEN <<>>
    ELSE Unpack(heap, completedPaths[i], unpackRequirements).paths
         \o unpackCompletedPaths(heap, completedPaths, i + 1, unpackRequirements)

\* expression.Dependencies: [err, paths].
Dependencies(ast, scope, unpackRequirements) ==
    LET dependencyResolutionResult == rootDependencies(ast, <<>>, scope)
    IN  [err |-> dependencyResolutionResult.err,
         paths |-> IF IsErr(dependencyResolutionResult) THEN <<>>
                   ELSE uniqueDependencies(
                            unpackCompletedPaths(dependencyResolutionResult.heap,
                                dependencyResolutionResult.res.completedPaths, 1,
                                unpackRequirements),
                            1, <<>>)]

(***************************************************************************)
(* Schema, data and requirements the expressions are resolved and          *)
(* evaluated on                                                            *)
(***************************************************************************)
\* The root scope: a and b integers, k a string, t a boolean, m a map from
\* strings to strings, n a map from strings to integers, l a list of
\* integers, y of type any.
RootScope ==
    ObjectSchema("scope", <<"r", "o", "o", "t">>,
        (<<"a">> :> IntSchema) @@ (<<"b">> :> IntSchema) @@ (<<"k">> :> StringSchema)
        @@ (<<"t">> :> BoolSchema)
        @@ (<<"m">> :> MapSchema(StringSchema, StringSchema))
        @@ (<<"n">> :> MapSchema(StringSchema, IntSchema))
        @@ (<<"l">> :> ListSchema(IntSchema)) @@ (<<"y">> :> AnySchema))

\* Root data that conforms to RootScope.
RootData(a, k, mk, y) ==
    GoMap((<<"a">> :> GoInt64(a)) @@ (<<"b">> :> GoInt64(2)) @@ (<<"k">> :> GoString(k))
          @@ (<<"t">> :> GoBool(TRUE))
          @@ (<<"m">> :> GoMap((<<"k">> :> GoString(mk)) @@ (<<"z">> :> GoString(<<"w">>))))
          @@ (<<"n">> :> GoMap(<<"k">> :> GoInt64(1)))
          @@ (<<"l">> :> GoSlice(<<GoInt64(1), GoInt64(2)>>))
          @@ (<<"y">> :> y))

DataSet ==
    {RootData(a, k, mk, y) :
        a \in {0, 2}, k \in {<<"k">>, <<"z">>}, mk \in {<<"z">>, <<"k">>},
        y \in {GoInt64(1), GoMap(<<"k">> :> GoString(<<"k">>))}}

RequirementsSet ==
    {UnpackRequirements(FALSE, FALSE, stop, keys) : stop \in BOOLEAN, keys \in BOOLEAN}

\* Whether a run-time value is of the schema type.
RECURSIVE ConformsTo(_, _)
ConformsTo(val, type) ==
    CASE type.TypeID = "any" -> TRUE
      [] type.TypeID = "string" -> val.t = "string"
      [] type.TypeID = "integer" -> val.t = "int64"
      [] type.TypeID = "float" -> val.t = "float64"
      [] type.TypeID = "bool" -> val.t = "bool"
      [] type.TypeID = "map" ->
            val.t = "map" /\ \A key \in DOMAIN val.v : ConformsTo(val.v[key], type.Values)
      [] type.TypeID = "list" ->
            val.t = "slice" /\ \A i \in DOMAIN val.v : ConformsTo(val.v[i], type.Items)
      [] type.TypeID \in ObjectTypeIDs ->
            /\ val.t = "map"
            /\ DOMAIN val.v = DOMAIN type.Properties
            /\ \A key \in DOMAIN val.v : ConformsTo(val.v[key], type.Properties[key])
      [] OTHER -> FALSE

(***************************************************************************)
(* Expression texts                                                        *)
(***************************************************************************)
\* The lexemes of a sequence joined by single spaces.
RECURSIVE JoinLexemes(_)
JoinLexemes(lexemes) ==
    IF Len(lexemes) = 0 THEN <<>>
    ELSE IF Len(lexemes) = 1 THEN lexemes[1]
    ELSE lexemes[1] \o <<" ">> \o JoinLexemes(Tail(lexemes))

\* The texts of one to maxLen lexemes of the alphabet.
LexemeTexts(alphabet, maxLen) ==
    UNION {{JoinLexemes(lexemes) : lexemes \in [1..n -> alphabet]} : n \in 1..maxLen}

MaxArithmeticLexemes == 5
ArithmeticLexemes == {<<"2">>, <<"+">>, <<"-">>, <<"*">>, <<"^">>}

MaxDivisionLexemes == 4
DivisionLexemes == {<<"0">>, <<"2">>, <<"/">>, <<"%">>, <<"-">>}

MaxLogicLexemes == 4
LogicLexemes ==
    {<<"t", "r", "u", "e">>, <<"2">>, <<"&", "&">>, <<"|", "|">>, <<"!">>, <<"=">>, <<">">>}

\* Accesses: a base, a base with a bracket key, and calls of the functions
\* of the registry on the operands.
AccessOperands ==
    {<<"$", ".", "a">>, <<"$", ".", "k">>, <<"$", ".", "m">>, <<"$", ".", "n">>,
     <<"$", ".", "l">>, <<"$", ".", "y">>, <<"k">>, <<"0">>, <<"\"", "k", "\"">>}
AccessBases == {<<"$", ".", "m">>, <<"$", ".", "n">>, <<"$", ".", "l">>, <<"$", ".", "y">>}
BracketTexts(keys) == {base \o <<"[">> \o key \o <<"]">> : base \in AccessBases, key \in keys}
CallTexts(args) ==
    {<<"g", "(">> \o x \o <<",", " ">> \o y \o <<")">> : x \in args, y \in args}
    \cup {<<"f", "(">> \o x \o <<")">> : x \in args} \cup {<<"h", "(", ")">>}
AccessTexts == AccessOperands \cup BracketTexts(AccessOperands) \cup CallTexts(AccessOperands)

\* Expressions of the parser, resolver and evaluation tests.
Examples ==
    {<<>>, <<"(">>, <<"2", " ", "*", " ", "(">>, <<"!", "(">>, <<"(", "-">>,
     <<"-", "!">>, <<"2", " ", "+", " ", "-", "!">>, <<"(", "2", ")", " ", "*">>,
     <<"a">>, <<"y", ".", "q">>, <<"m", "[", "\"", "k", "\"", "]">>, <<"l", "[", "a", "]">>,
     <<"q", ".", "b">>, <<"k", " ", "=", "=", " ", "$", ".", "k">>, <<"y", "[", "0", "]">>,
     <<"#">>, <<"#", " ", "2">>, <<"2", " ", "#">>, <<"2", " ", "+", " ", "#", " ", "3">>,
     <<"2", " ", "2", " ", "#">>, <<"2", " ", ")", " ", "3">>, <<"$", ".", "a", " ", "$">>,
     <<"f", "(", "2", ")", " ", ",", " ", "2">>, <<"$", ".", "a", "[", "0", "]", " ", "]">>,
     <<"2", " ", "<">>, <<"2", " ", ">", "=">>, <<"2", " ", "<", "=">>,
     <<"2", " ", "!", "=">>, <<"$", ".", "a", " ", "=", "=">>,
     <<"2", " ", "*", " ", "3", " ", "+", " ", "4", " ", ">", " ", "2", " ", "%", " ",
      "5", " ", "|", "|", " ", "x", " ", "&", "&", " ", "!", "t", "r", "u", "e">>,
     <<"1", " ", "-", " ", "2", " ", "-", " ", "3">>,
     <<"2", " ", "*", " ", "-", "2", " ", "+", " ", "2">>,
     <<"2", " ", "^", " ", "-", "2", " ", "*", " ", "2">>,
     <<"2", " ", "-", " ", "-", "2", " ", "-", " ", "2">>,
     <<"2", " ", "^", " ", "-", "2", " ", "^", " ", "2">>,
     <<"2", " ", "^", " ", "3", " ", "^", " ", "2">>,
     <<"!", "a", " ", "&", "&", " ", "b">>,
     <<"!", "a", " ", "|", "|", " ", "b">>,
     <<"-", "a", " ", "+", " ", "b">>,
     <<"-", "-", "-", "5">>,
     <<"-", "-", "5">>,
     <<"!", "!", "t", "r", "u", "e">>,
     <<"4", " ", "/", " ", "2">>,
     <<"5", ".", "0", " ", "/", " ", "2", ".", "0">>,
     <<"\"", "a", "\\", "\"", "b", "\"">>,
     <<"\"", "a", "\\", "\\", "b", "\"">>,
     <<"'", "a", "'">>,
     <<"1", ".", "5">>,
     <<"-", "2", ".", "5">>,
     <<"a", " ", "!", " ", "b">>,
     <<"!", "=", " ", "5">>,
     <<"$", ".", "m", "[", "k", "]">>,
     <<"$", ".", "m", "[", "$", ".", "k", "]">>,
     <<"1", " ", "+">>,
     <<"2", " ", "*", " ", "(", "3", " ", "+", " ", "4", ")">>,
     <<"(", "1", " ", "-", " ", "2", ")", " ", "-", " ", "3">>,
     <<"!", "(", "t", "r", "u", "e", " ", "&", "&", " ", "f", "a", "l", "s", "e", ")">>,
     <<"$", ".", "a", " ", "+", " ", "$", ".", "b">>,
     <<"$", ".", "a", " ", "/", " ", "$", ".", "a">>,
     <<"-", "$", ".", "a", " ", "+", " ", "3">>,
     <<"!", "$", ".", "t", " ", "&", "&", " ", "f", "a", "l", "s", "e">>,
     <<"$", ".", "t", " ", "|", "|", " ", "!", "$", ".", "t">>,
     <<"g", "(", "$", ".", "a", ",", " ", "$", ".", "a", ")", " ", "*", " ", "2">>,
     <<"$", ".", "y", ".", "q">>,
     <<"$", ".", "l", "[", "$", ".", "b", "]">>,
     <<"$", ".", "l", "[", "-", "1", "]">>,
     <<"2", " ", "=", " ", "2">>,
     <<"f", "(">>,
     <<"f", "(", "2">>,
     <<"f", "(", "2", ",">>,
     <<"f", "(", "2", ",", " ", "3">>,
     <<"f", "(", "2", " ", "3", ")">>,
     <<"f", "(", "2", ",", ")">>,
     <<"f", "(", ",", ")">>,
     <<"f", "(", "2", " ", "+">>,
     <<"@", ".", "a">>,
     <<"@">>,
     <<"2", " ", "+", " ", "@">>,
     <<"-", "@">>,
     <<"f", "(", "@", ")">>,
     <<"$", ".", "m", "[", "@", "]">>,
     <<"$", ".", "m", "[", "@", ".", "k", "]">>,
     <<"\"", "a", "\"", ".", "a">>,
     <<"\"", "a", "\"", "[", "0", "]">>,
     <<"5", "(", "2", ")">>,
     <<"1", ".", "5", ".", "a">>,
     <<"t", "r", "u", "e", "[", "0", "]">>,
     <<"2", " ", "+", " ", "5", "(", ")">>,
     <<"2", " ", "&", " ", "2">>,
     <<"2", " ", "|", " ", "2">>,
     <<"$", ".", "a", " ", "&", " ", "|", " ", "$", ".", "b">>,
     <<"(", "2", ")", " ", "=">>,
     <<"2", " ", "&">>,
     <<"2", " ", "|">>,
     <<"$", ".", "y", "[", "0", "]">>,
     <<"$", ".", "a", "[", "0", "]">>,
     <<"2", " ", "+", " ", "2", ".", "5">>,
     <<"2", ".", "5", " ", ">", " ", "2">>,
     <<"$", " ", ">", " ", "$">>,
     <<"$", ".", "m", " ", "+", " ", "$", ".", "m">>,
     <<"$", ".", "l", " ", "=", "=", " ", "$", ".", "l">>,
     <<"$", ".", "k", " ", "+", " ", "2">>,
     <<"t", "r", "u", "e", " ", ">", " ", "f", "a", "l", "s", "e">>,
     <<"t", "r", "u", "e", " ", "!", "=", " ", "f", "a", "l", "s", "e">>,
     <<"\"", "a", "\"", " ", "<", " ", "\"", "b", "\"">>,
     <<"\"", "a", "\"", " ", "-", " ", "\"", "b", "\"">>,
     <<"\"", "a", "\"", " ", "&", "&", " ", "\"", "b", "\"">>,
     <<"1", ".", "5", " ", "%", " ", "0", ".", "5">>,
     <<"1", ".", "5", " ", "|", "|", " ", "0", ".", "5">>,
     <<"q", "(", ")">>,
     <<"q", "(", "$", ".", "q", ")">>,
     <<"f", "(", ")">>,
     <<"h", "(", "$", ".", "a", ")">>,
     <<"h", "(", "$", ".", "q", ")">>,
     <<"g", "(", "$", ".", "a", ")">>,
     <<"f", "(", "$", ".", "k", ",", " ", "$", ".", "k", ")">>,
     <<"f", "(", "$", ".", "q", ")">>,
     <<"g", "(", "$", ".", "k", ",", " ", "$", ".", "q", ")">>,
     <<"g", "(", "$", ".", "a", ",", " ", "$", ".", "n", "[", "0", "]", ")">>,
     <<"f", "(", "f", "(", "$", ".", "k", ")", ")">>,
     <<"f", "(", "h", "(", ")", ")">>,
     <<"f", "(", "i", "(", "$", ".", "k", ")", ")">>,
     <<"f", "(", "i", "(", "$", ".", "a", ")", ")">>,
     <<"i", "(", "$", ".", "a", ")">>,
     <<"i", "(", "$", ".", "m", ")">>,
     <<"i", "(", "$", ".", "l", ")">>,
     <<"i", "(", "\"", "a", "\"", ")">>,
     <<"i", "(", ")">>,
     <<"e", "(", ")">>,
     <<"e", "(", "2", ")">>,
     <<"f", "(", "e", "(", ")", ")">>,
     <<"g", "(", "2", " ", "/", " ", "0", ",", " ", "2", ")">>,
     <<"f", "(", "$", ".", "y", "[", "0", "]", ")">>,
     <<"$", ".", "k", "[", "$", ".", "a", "]">>,
     <<"$", "[", "\"", "a", "\"", "]">>,
     <<"$", "[", "$", ".", "k", "]">>,
     <<"$", ".", "t", "[", "q", "]">>,
     <<"\"", "a", "\"", " ", "+", " ", "f", "(", "$", ".", "k", ")">>,
     <<"$", ".", "k", " ", "=", "=", " ", "\"", "k", "\"">>,
     <<"2", " ", "%", " ", "0">>,
     <<"0", ".", "5", " ", "+", " ", "1", ".", "2", "5">>}

\* Each binary operator between operands of two types.
OperatorTexts ==
    {<<"+">>, <<"-">>, <<"*">>, <<"/">>, <<"%">>, <<"^">>, <<">">>, <<"<">>, <<">", "=">>,
     <<"<", "=">>, <<"=", "=">>, <<"!", "=">>, <<"&", "&">>, <<"|", "|">>}
MixedOperandTexts ==
    {JoinLexemes(<<left, operator, right>>) :
        left \in {<<"2">>, <<"t", "r", "u", "e">>},
        operator \in OperatorTexts,
        right \in {<<"0", ".", "5">>, <<"2">>, <<"$", ".", "k">>}}

Inputs ==
    Examples \cup AccessTexts \cup MixedOperandTexts
    \cup LexemeTexts(ArithmeticLexemes, MaxArithmeticLexemes)
    \cup LexemeTexts(DivisionLexemes, MaxDivisionLexemes)
    \cup LexemeTexts(LogicLexemes, MaxLogicLexemes)

(***************************************************************************)
(* The life of one expression                                              *)
(***************************************************************************)
NoRequirements == UnpackRequirements(FALSE, FALSE, FALSE, FALSE)

Init ==
    /\ expressionString \in Inputs
    /\ pc = "new"
    /\ exprAst = NilNode
    /\ requirements = NoRequirements
    /\ rootValue = GoNil
    /\ printed = <<>>
    /\ tree = <<>>
    /\ returned = [op |-> "none"]
    /\ memory = <<>>
    /\ calls = <<>>

\* expressions.New: the expression is tokenized and parsed.
New ==
    /\ pc = "new"
    /\ \E r \in {Parse(expressionString)} :
           /\ exprAst' = r.node
           /\ returned' =
                 [op |-> "New",
                  err |-> IF r.err.kind \in {"none", "panic"} THEN r.err
                          ELSE Errorf("failed to parse expression: %s (%v)",
                                      <<expressionString, ErrorString(r.err)>>, NoErr)]
           /\ pc' = IF IsErr(r) THEN "failed" ELSE "parsed"
    /\ UNCHANGED <<expressionString, requirements, rootValue, printed, tree, memory, calls>>

\* Node.String on the root of the tree.
String ==
    /\ pc = "parsed"
    /\ printed' = NodeString(exprAst)
    /\ returned' = [op |-> "String"]
    /\ pc' = "printed"
    /\ UNCHANGED <<expressionString, exprAst, requirements, rootValue, tree, memory, calls>>

\* How deep the parentheses of the printed form of n nest.
RECURSIVE PrintedNesting(_)
PrintedNesting(n) ==
    LET Max(a, b) == IF a > b THEN a ELSE b
        args == n.ArgumentInputs.Arguments
    IN  CASE n.kind = "BinaryOperation" ->
               1 + Max(PrintedNesting(n.LeftNode), PrintedNesting(n.RightNode))
          [] n.kind = "UnaryOperation" -> 1 + PrintedNesting(n.RightNode)
          [] n.kind = "DotNotation" -> PrintedNesting(n.LeftAccessibleNode)
          [] n.kind = "BracketAccessor" ->
               Max(PrintedNesting(n.LeftNode), PrintedNesting(n.RightExpression))
          [] n.kind = "FunctionCall" ->
               1 + (IF Len(args) = 0 THEN 0
                    ELSE IF Len(args) = 1 THEN PrintedNesting(args[1])
                    ELSE Max(PrintedNesting(args[1]), PrintedNesting(args[2])))
          [] OTHER -> 0

\* The printed forms that are parsed again nest their parentheses no
\* deeper than this.
MaxPrintedNesting == 2

\* The printed form is parsed again.
Reparse ==
    /\ pc = "printed"
    /\ PrintedNesting(exprAst) <= MaxPrintedNesting
    /\ \E r \in {Parse(printed)} :
           returned' = [op |-> "Reparse", err |-> r.err, node |-> r.node]
    /\ pc' = "reparsed"
    /\ UNCHANGED <<expressionString, exprAst, requirements, rootValue, printed, tree, memory, calls>>

\* expression.Type on the root scope.
TypeOf ==
    /\ pc = "parsed"
    /\ LET r == Type(exprAst, RootScope)
       IN  returned' = [op |-> "Type", err |-> r.err, type |-> r.type]
    /\ pc' = "typed"
    /\ UNCHANGED <<expressionString, exprAst, requirements, rootValue, printed, tree, memory, calls>>

\* expression.Dependencies on the root scope.
DependenciesOf ==
    /\ pc = "parsed"
    /\ \E r \in RequirementsSet :
          /\ requirements' = r
          /\ LET d == Dependencies(exprAst, RootScope, r)
             IN  returned' = [op |-> "Dependencies", err |-> d.err, paths |-> d.paths]
    /\ pc' = "resolved"
    /\ UNCHANGED <<expressionString, exprAst, rootValue, printed, tree, memory, calls>>

\* expression.Dependencies with the any schema as the scope.
DependenciesOnAny ==
    /\ pc = "parsed"
    /\ \E r \in RequirementsSet :
          /\ requirements' = r
          /\ LET d == Dependencies(exprAst, AnySchema, r)
             IN  returned' = [op |-> "Dependencies", err |-> d.err, paths |-> d.paths]
    /\ pc' = "resolved on any"
    /\ UNCHANGED <<expressionString, exprAst, rootValue, printed, tree, memory, calls>>

\* expression.Evaluate on root data.
EvaluateOn ==
    /\ pc = "parsed"
    /\ \E d \in DataSet :
          /\ rootValue' = d
          /\ returned' = [op |-> "Evaluate", result |-> Evaluate(exprAst, d)]
    /\ pc' = "evaluated"
    /\ UNCHANGED <<expressionString, exprAst, requirements, printed, tree, memory, calls>>

Next ==
    New \/ String \/ Reparse \/ TypeOf \/ DependenciesOf \/ DependenciesOnAny \/ EvaluateOn

Spec == Init /\ [][Next]_vars

TypeOK == pc \in {"new", "failed", "parsed", "printed", "reparsed", "typed", "resolved",
                  "resolved on any", "evaluated", "tree", "unpacked"}

(***************************************************************************)
(* Unpack on path trees built by hand                                      *)
(***************************************************************************)
\* The node types of the trees: the five of the package and one that is
\* none of them.
TreeNodeTypes == NodeTypes \cup {"abc-invalid"}

\* The shapes of the trees: the Subtrees of each node, the root first.
TreeShapes ==
    {<<<<>>>>,
     <<<<2>>, <<>>>>,
     <<<<2>>, <<3>>, <<>>>>,
     <<<<2, 3>>, <<>>, <<>>>>,
     <<<<2, 4>>, <<3>>, <<>>, <<>>>>}

\* The path item of the node at index i: each node has an item of its own.
TreeItem(i) == GoString(<<<<"$">>, <<"a">>, <<"b">>, <<"c">>>>[i])

PathTrees ==
    UNION {{[i \in 1..Len(shape) |->
                [PathItem |-> TreeItem(i), NodeType |-> types[i], Subtrees |-> shape[i]]] :
            types \in [1..Len(shape) -> TreeNodeTypes]} : shape \in TreeShapes}

AllRequirements ==
    {UnpackRequirements(data, function, stop, keys) :
        data \in BOOLEAN, function \in BOOLEAN, stop \in BOOLEAN, keys \in BOOLEAN}

InitUnpack ==
    /\ expressionString = <<>>
    /\ pc = "tree"
    /\ exprAst = NilNode
    /\ requirements \in AllRequirements
    /\ rootValue = GoNil
    /\ printed = <<>>
    /\ tree \in PathTrees
    /\ returned = [op |-> "none"]
    /\ memory = <<>>
    /\ calls = <<>>

\* PathTree.Unpack on the root of the tree.
UnpackTree ==
    /\ pc = "tree"
    /\ \E result \in {Unpack(tree, 1, requirements)} :
           returned' = [op |-> "Unpack", panic |-> result.panic, paths |-> result.paths]
    /\ pc' = "unpacked"
    /\ UNCHANGED <<expressionString, exprAst, requirements, rootValue, printed, tree, memory, calls>>

NextUnpack == UnpackTree

SpecUnpack == InitUnpack /\ [][NextUnpack]_vars

(***************************************************************************)
(* Calls that run concurrently on one parsed expression                    *)
(***************************************************************************)
\* The callers: each makes one call of Type, Dependencies or Evaluate on
\* the expression New returned.
NumCallers == 3
Callers == 1..NumCallers

\* The expressions the callers share.
SharedExpressions ==
    {<<"$", ".", "m", "[", "$", ".", "k", "]">>,
     <<"$", ".", "n", "[", "k", "]">>,
     <<"$", ".", "l", "[", "$", ".", "b", "]">>,
     <<"$", ".", "y", ".", "q">>,
     <<"g", "(", "$", ".", "a", ",", " ", "$", ".", "b", ")">>,
     <<"f", "(", "$", ".", "m", "[", "\"", "k", "\"", "]", ")">>,
     <<"$", ".", "a", " ", "+", " ", "$", ".", "b">>,
     <<"i", "(", "$", ".", "q", ")">>,
     <<"2", " ", "+">>}

SharedRequirements ==
    {UnpackRequirements(FALSE, FALSE, FALSE, FALSE), UnpackRequirements(FALSE, TRUE, TRUE, TRUE)}
SharedData == {RootData(2, <<"k">>, <<"z">>, GoInt64(1))}

\* The frame of a caller that has not called.
Idle == [op |-> "none", at |-> "idle"]

InitConcurrent ==
    /\ expressionString \in SharedExpressions
    /\ pc = "new"
    /\ exprAst = NilNode
    /\ requirements = NoRequirements
    /\ rootValue = GoNil
    /\ printed = <<>>
    /\ tree = <<>>
    /\ returned = [op |-> "none"]
    /\ memory = <<>>
    /\ calls = [c \in Callers |-> Idle]

\* expression.Type up to the call of rootDependencies: the receiver is a
\* copy of the expression, the root tree and the context are the call's own.
CallType(c) ==
    /\ pc = "parsed"
    /\ calls[c].at = "idle"
    /\ calls' = [calls EXCEPT ![c] = [op |-> "Type", at |-> "context", ast |-> exprAst,
                                      rootType |-> RootScope]]
    /\ UNCHANGED <<expressionString, pc, exprAst, requirements, rootValue, printed, tree,
                   returned, memory>>

\* expression.Dependencies up to the call of rootDependencies.
CallDependencies(c) ==
    /\ pc = "parsed"
    /\ calls[c].at = "idle"
    /\ \E r \in SharedRequirements :
          calls' = [calls EXCEPT ![c] = [op |-> "Dependencies", at |-> "context",
                                        ast |-> exprAst, rootType |-> RootScope,
                                        unpackRequirements |-> r]]
    /\ UNCHANGED <<expressionString, pc, exprAst, requirements, rootValue, printed, tree,
                   returned, memory>>

\* expression.Evaluate up to the call of evaluate.
CallEvaluate(c) ==
    /\ pc = "parsed"
    /\ calls[c].at = "idle"
    /\ \E d \in SharedData :
          calls' = [calls EXCEPT ![c] = [op |-> "Evaluate", at |-> "context",
                                        ast |-> exprAst, rootData |-> d]]
    /\ UNCHANGED <<expressionString, pc, exprAst, requirements, rootValue, printed, tree,
                   returned, memory>>

\* d.rootDependencies(e.ast) of Type and Dependencies: the path tree nodes
\* are allocated after those the other calls allocated.  Type returns the
\* type; Dependencies returns the error or goes on to its loop.
ResolveStep(c) ==
    /\ calls[c].at = "context"
    /\ calls[c].op \in {"Type", "Dependencies"}
    /\ \E r \in {rootDependencies(calls[c].ast, memory, calls[c].rootType)} :
          /\ memory' = r.heap
          /\ calls' =
                [calls EXCEPT ![c] =
                    IF calls[c].op = "Type"
                    THEN [op |-> "Type", at |-> "done",
                          returned |-> [err |-> r.err, type |-> r.res.resolvedType]]
                    ELSE IF IsErr(r)
                    THEN [op |-> "Dependencies", at |-> "done",
                          unpackRequirements |-> calls[c].unpackRequirements,
                          returned |-> [err |-> r.err, paths |-> <<>>]]
                    ELSE [op |-> "Dependencies", at |-> "unpacking",
                          unpackRequirements |-> calls[c].unpackRequirements,
                          completedPaths |-> r.res.completedPaths, i |-> 1,
                          finalDependencies |-> <<>>]]
    /\ UNCHANGED <<expressionString, pc, exprAst, requirements, rootValue, printed, tree,
                   returned>>

\* One turn of the loop of Dependencies over the completed paths: the tree
\* is unpacked and the paths with a new string form are kept; after the
\* last tree the paths are returned.
UnpackStep(c) ==
    /\ calls[c].at = "unpacking"
    /\ calls' =
          [calls EXCEPT ![c] =
              IF calls[c].i > Len(calls[c].completedPaths)
              THEN [op |-> "Dependencies", at |-> "done",
                    unpackRequirements |-> calls[c].unpackRequirements,
                    returned |-> [err |-> NoErr, paths |-> calls[c].finalDependencies]]
              ELSE [calls[c] EXCEPT
                       !.i = @ + 1,
                       !.finalDependencies =
                           uniqueDependencies(
                               Unpack(memory, calls[c].completedPaths[calls[c].i],
                                      calls[c].unpackRequirements).paths,
                               1, @)]]
    /\ UNCHANGED <<expressionString, pc, exprAst, requirements, rootValue, printed, tree,
                   returned, memory>>

\* context.evaluate(e.ast, data) of Evaluate.
EvaluateStep(c) ==
    /\ calls[c].at = "context"
    /\ calls[c].op = "Evaluate"
    /\ calls' = [calls EXCEPT ![c] =
                    [op |-> "Evaluate", at |-> "done", rootData |-> calls[c].rootData,
                     returned |-> Evaluate(calls[c].ast, calls[c].rootData)]]
    /\ UNCHANGED <<expressionString, pc, exprAst, requirements, rootValue, printed, tree,
                   returned, memory>>

NextConcurrent ==
    \/ New
    \/ \E c \in Callers :
          \/ CallType(c)
          \/ CallDependencies(c)
          \/ CallEvaluate(c)
          \/ ResolveStep(c)
          \/ UnpackStep(c)
          \/ EvaluateStep(c)

SpecConcurrent == InitConcurrent /\ [][NextConcurrent]_vars

(***************************************************************************)
(* Properties of the parser                                                *)
(***************************************************************************)
\* The precedence level of a binary operator, loosest first.  The parser
\* reads "!" between two operands at the level of the comparisons.
PrecedenceLevel(operation) ==
    CASE operation = "Or" -> 1
      [] operation = "And" -> 2
      [] operation \in ComparisonOperations \cup {"Not"} -> 3
      [] operation \in {"Add", "Subtract"} -> 4
      [] operation \in {"Multiply", "Divide", "Modulus"} -> 5
      [] operation = "Power" -> 6
      [] OTHER -> 0

BinaryOperators ==
    {"Add", "Subtract", "Multiply", "Divide", "Modulus", "Power", "And", "Or"}
    \cup ComparisonOperations

HasChar(text, c) == \E i \in 1..Len(text) : text[i] = c
ParenthesisFree(text) == ~HasChar(text, "(")

\* The children of a node of the tree.
Children(n) ==
    CASE n.kind = "BinaryOperation" -> <<n.LeftNode, n.RightNode>>
      [] n.kind = "UnaryOperation" -> <<n.RightNode>>
      [] n.kind = "DotNotation" -> <<n.LeftAccessibleNode, n.RightAccessIdentifier>>
      [] n.kind = "BracketAccessor" -> <<n.LeftNode, n.RightExpression>>
      [] n.kind = "FunctionCall" -> n.ArgumentInputs.Arguments
      [] OTHER -> <<>>

\* The nodes of the tree under n.
RECURSIVE Nodes(_)
Nodes(n) == {n} \cup UNION {Nodes(Children(n)[i]) : i \in 1..Len(Children(n))}

\* The operand n with the prefix operators in front of it taken off.
RECURSIVE UnderUnary(_)
UnderUnary(n) == IF n.kind = "UnaryOperation" THEN UnderUnary(n.RightNode) ELSE n

\* A binary node whose operand is an operation of a looser level.
LooserOperand(n) ==
    /\ n.kind = "BinaryOperation"
    /\ \E side \in {UnderUnary(n.LeftNode), UnderUnary(n.RightNode)} :
          /\ side.kind = "BinaryOperation"
          /\ PrecedenceLevel(side.Operation) < PrecedenceLevel(n.Operation)

PrecedenceExample ==
    <<"2", " ", "*", " ", "3", " ", "+", " ", "4", " ", ">", " ", "2", " ", "%", " ",
      "5", " ", "|", "|", " ", "x", " ", "&", "&", " ", "!", "t", "r", "u", "e">>
PrecedenceExampleTree ==
    BinaryOperation(
        BinaryOperation(
            BinaryOperation(BinaryOperation(IntLiteral(2), "Multiply", IntLiteral(3)),
                            "Add", IntLiteral(4)),
            "GreaterThan",
            BinaryOperation(IntLiteral(2), "Modulus", IntLiteral(5))),
        "Or",
        BinaryOperation(Identifier(<<"x">>), "And",
                        UnaryOperation("Not", BooleanLiteral(TRUE))))

\* C1: in the tree of an expression without parentheses no binary operation
\* has, as an operand, an operation of a looser precedence level (the
\* tighter operator is applied first), and the expression
\* 2 * 3 + 4 > 2 % 5 || x && !true has the tree
\* Or(Gt(Add(Mul(2,3),4), Mod(2,5)), And(x, Not(true))).
C1_Precedence ==
    pc = "parsed" =>
        /\ ParenthesisFree(expressionString) => \A n \in Nodes(exprAst) : ~LooserOperand(n)
        /\ expressionString = PrecedenceExample => exprAst = PrecedenceExampleTree

\* A binary node whose right operand is an operation of its own level.
RightNested(n) ==
    /\ n.kind = "BinaryOperation"
    /\ UnderUnary(n.RightNode).kind = "BinaryOperation"
    /\ PrecedenceLevel(UnderUnary(n.RightNode).Operation) = PrecedenceLevel(n.Operation)

\* C2: chains of binary operators of one level associate to the left: in
\* the tree of an expression without parentheses no binary operation has an
\* operation of the same level as its right operand.
C2_LeftAssociative ==
    (pc = "parsed" /\ ParenthesisFree(expressionString)) =>
        \A n \in Nodes(exprAst) : ~RightNested(n)

\* A prefix operator applied to more than one expression of the level
\* beneath it: "-" to a binary operation, "!" to a conjunction or
\* disjunction.
WideUnaryOperand(n) ==
    /\ n.kind = "UnaryOperation"
    /\ n.RightNode.kind = "BinaryOperation"
    /\ \/ n.LeftOperation = "Subtract"
       \/ n.LeftOperation = "Not" /\ n.RightNode.Operation \in {"And", "Or"}

\* C3: the operand of a prefix operator is one expression of the level
\* beneath it: in the tree of an expression without parentheses "!" is not
\* applied to a conjunction or disjunction and "-" is not applied to a
\* binary operation.
C3_UnaryOperand ==
    (pc = "parsed" /\ ParenthesisFree(expressionString)) =>
        \A n \in Nodes(exprAst) : ~WideUnaryOperand(n)

\* The number of tokens of the given id at the front of the tokens.
RECURSIVE LeadingRun(_, _)
LeadingRun(toks, id) ==
    IF Len(toks) = 0 \/ toks[1].TokenID # id THEN 0
    ELSE 1 + LeadingRun(Tail(toks), id)

\* The operand under n applications of a prefix operator.
RECURSIVE NestUnary(_, _, _)
NestUnary(operation, n, operand) ==
    IF n = 0 THEN operand ELSE UnaryOperation(operation, NestUnary(operation, n - 1, operand))

\* The first operand of the expression: the left end of the tree.
RECURSIVE LeftEnd(_)
LeftEnd(n) == IF n.kind = "BinaryOperation" THEN LeftEnd(n.LeftNode) ELSE n

\* The negation applied n times to the integer v.
RECURSIVE NegateTimes(_, _)
NegateTimes(n, v) == IF n = 0 THEN v ELSE 0 - NegateTimes(n - 1, v)

\* The run of "-" in front of an integer literal, or of "!" in front of a
\* boolean literal that ends the comparison-level operand of the "!" (the
\* input ends or "&&" or "||" follows), that the expression starts with:
\* the length of the run and the literal, with any = FALSE when it starts
\* with neither.
LeadingUnaryRun(text) ==
    LET toks == Tokenize(text)
        minus == LeadingRun(toks, "negation-sign")
        nots == LeadingRun(toks, "not")
    IN  IF minus >= 1 /\ Len(toks) > minus /\ toks[minus + 1].TokenID = "int"
        THEN [any |-> TRUE, operation |-> "Subtract", n |-> minus,
              operand |-> IntLiteral(Atoi(toks[minus + 1].Value)),
              last |-> Len(toks) = minus + 1]
        ELSE IF /\ nots >= 1 /\ Len(toks) > nots /\ toks[nots + 1].TokenID = "boolean"
                /\ \/ Len(toks) = nots + 1
                   \/ toks[nots + 2].TokenID \in {"and", "or"}
        THEN [any |-> TRUE, operation |-> "Not", n |-> nots,
              operand |-> BooleanLiteral(toks[nots + 1].Value = <<"t", "r", "u", "e">>),
              last |-> Len(toks) = nots + 1]
        ELSE [any |-> FALSE]

\* C4: a run of n "-" tokens in front of an integer literal (of n "!" in
\* front of a boolean literal) at the start of an expression yields exactly
\* n nested UnaryOperation nodes around that literal, and evaluating the run
\* alone applies the operator n times to the literal's value.
C4_UnaryRun ==
    LET run == LeadingUnaryRun(expressionString)
    IN  (run.any /\ ParenthesisFree(expressionString)) =>
            /\ pc = "parsed" =>
                  LeftEnd(exprAst) = NestUnary(run.operation, run.n, run.operand)
            /\ (pc = "evaluated" /\ run.last) =>
                  /\ returned.result.kind = "value"
                  /\ returned.result.val =
                        IF run.operation = "Subtract"
                        THEN GoInt64(NegateTimes(run.n, run.operand.IntValue))
                        ELSE GoBool(IF run.n % 2 = 1 THEN ~run.operand.BooleanValue
                                    ELSE run.operand.BooleanValue)

(***************************************************************************)
(* Properties of the facade                                                *)
(***************************************************************************)
\* C5: when Type succeeds with T, Evaluate on data that conforms to the
\* schema returns a value of type T or an error; it returns no value of
\* another kind and does not abort.
C5_ResolverMonotonicity ==
    (pc = "evaluated" /\ ~IsErr(Type(exprAst, RootScope))) =>
        /\ returned.result.kind \in {"value", "error"}
        /\ returned.result.kind = "value" =>
              ConformsTo(returned.result.val, Type(exprAst, RootScope).type)

KeysNoTerminals == UnpackRequirements(FALSE, FALSE, FALSE, TRUE)

\* Whether the path of a lookup is a dependency path or leads to one.
LeadsTo(at, dependency) ==
    /\ Len(at) <= Len(dependency)
    /\ \A i \in 1..Len(at) : at[i] = PathItemString(dependency[i])

\* C6: Evaluate on conforming data looks identifiers up only at paths that
\* Dependencies returns (with keys included and no stop at terminals) or
\* that lead to such a path; this holds of the identifiers of bracket keys
\* and function arguments too.
C6_DependencySoundness ==
    LET d == Dependencies(exprAst, RootScope, KeysNoTerminals)
        reads == returned.result.reads
    IN  (pc = "evaluated" /\ ~IsErr(d)) =>
            \A i \in 1..Len(reads) :
                reads[i].identifier =>
                    \E j \in 1..Len(d.paths) : LeadsTo(reads[i].at, d.paths[j])

\* The paths unpacked from the completed dependency trees of the expression
\* in hand, under the requirements in hand, before any path is dropped.
UnpackedPaths ==
    LET r == rootDependencies(exprAst, <<>>, RootScope)
    IN  unpackCompletedPaths(r.heap, r.res.completedPaths, 1, requirements)

\* The place of the first path of the list with the string form of path.
FirstPlace(paths, path) ==
    CHOOSE i \in 1..Len(paths) :
        /\ PathString(paths[i]) = PathString(path)
        /\ \A j \in 1..(i - 1) : PathString(paths[j]) # PathString(path)

\* C7: the list Dependencies returns holds no two paths with one string
\* form, holds a path for every string form among the unpacked paths and no
\* other, and each path it holds is the first unpacked path of its string
\* form, in the order of these first occurrences.
C7_DependencyDeduplication ==
    (pc = "resolved" /\ returned.err.kind = "none") =>
        LET all == UnpackedPaths
            final == returned.paths
        IN  /\ \A p, q \in 1..Len(final) :
                   PathString(final[p]) = PathString(final[q]) => p = q
            /\ \A i \in 1..Len(all) :
                   \E p \in 1..Len(final) : PathString(final[p]) = PathString(all[i])
            /\ \A p \in 1..Len(final) :
                   /\ \E i \in 1..Len(all) : PathString(all[i]) = PathString(final[p])
                   /\ final[p] = all[FirstPlace(all, final[p])]
            /\ \A p, q \in 1..Len(final) :
                   p < q => FirstPlace(all, final[p]) < FirstPlace(all, final[q])

\* A list of dependencies from which a repeated path was dropped.
C7_Witness ==
    /\ pc = "resolved"
    /\ returned.err.kind = "none"
    /\ Len(returned.paths) >= 1
    /\ Len(returned.paths) < Len(UnpackedPaths)

\* C8: the printed form of a parsed expression is accepted by the parser,
\* and the tree parsed from it prints to the same text.
C8_PrintRoundTrip ==
    pc = "reparsed" =>
        /\ returned.err.kind = "none"
        /\ NodeString(returned.node) = printed

\* C9: in the tree of a parsed expression every BinaryOperation carries one
\* of the fourteen binary operators and every UnaryOperation carries
\* Subtract or Not.
C9_WellFormedOperators ==
    pc = "parsed" =>
        \A n \in Nodes(exprAst) :
            /\ n.kind = "BinaryOperation" => n.Operation \in BinaryOperators
            /\ n.kind = "UnaryOperation" => n.LeftOperation \in {"Subtract", "Not"}

\* The value a bracket access has when its key is evaluated on the root
\* data and then applied to the value of the expression on its left.
KeyFromRoot(node, d) ==
    LET root == Value(d, TRUE, <<<<"$">>>>, <<>>)
        left == evaluate(node.LeftNode, root, root)
        key == evaluate(node.RightExpression, root, root)
    IN  IF left.kind # "value" THEN left
        ELSE IF key.kind # "value" THEN key
        ELSE evaluateMapAccess(left, key.val)

\* C10: Evaluate of a bracket access evaluates the expression inside the
\* brackets on the root data and applies the key it gets to the value of
\* the expression on the left: the outcome is the one of KeyFromRoot.
C10_BracketKeyFromRoot ==
    (pc = "evaluated" /\ exprAst.kind = "BracketAccessor") =>
        LET expected == KeyFromRoot(exprAst, rootValue)
        IN  /\ returned.result.kind = expected.kind
            /\ expected.kind = "value" => returned.result.val = expected.val

\* Whether the outcome result of indexing the sequence with key is the one
\* of a checked access: element key of the sequence for an int64 key inside
\* it, and otherwise an error that prints the key and the length.
CheckedIndexing(sequence, key, result) ==
    IF key.t = "int64" /\ 0 <= key.v /\ key.v < Len(sequence.v)
    THEN result.kind = "value" /\ result.val = sequence.v[key.v + 1]
    ELSE /\ result.kind = "error"
         /\ "args" \in DOMAIN result
         /\ \E i, j \in DOMAIN result.args :
                /\ i # j
                /\ result.args[i] = key.v
                /\ result.args[j] = Len(sequence.v)

\* The sequence and the key of the bracket access that Evaluate has just
\* made, when the expression is one on a sequence: <<sequence, key>>.
IndexedSequence ==
    LET root == Value(rootValue, TRUE, <<<<"$">>>>, <<>>)
        left == evaluate(exprAst.LeftNode, root, root)
        key == evaluate(exprAst.RightExpression, left, root)
    IN  IF pc = "evaluated" /\ exprAst.kind = "BracketAccessor"
           /\ left.kind = "value" /\ left.val.t = "slice" /\ key.kind = "value"
        THEN <<left.val, key.val>>
        ELSE <<>>

\* C11: indexing a sequence succeeds only for an int64 key i with
\* 0 <= i < length and then gives element i; for every other key Evaluate
\* returns an error that reports the observed index and the length of the
\* sequence, and never a panic.
C11_SequenceIndexing ==
    IndexedSequence # <<>> =>
        CheckedIndexing(IndexedSequence[1], IndexedSequence[2], returned.result)

\* errors.As: the first error of one of the kinds in the chain of the
\* errors that err wraps, NoErr when there is none.
RECURSIVE errorsAs(_, _)
errorsAs(err, kinds) ==
    IF err.kind \in kinds THEN err
    ELSE IF "wrapped" \in DOMAIN err /\ err.wrapped.kind # "none"
    THEN errorsAs(err.wrapped, kinds)
    ELSE NoErr

\* C16: when New fails, the error it returns is the error of the tokenizer
\* or of the parser: the caller gets the InvalidTokenError or the
\* InvalidGrammarError out of it, with its tokens.
C16_ParseErrorUnchanged ==
    (pc = "failed" /\ returned.err.kind # "panic") =>
        \E own \in {Parse(expressionString).err} :
            own.kind \in {"InvalidTokenError", "InvalidGrammarError"} =>
                errorsAs(returned.err, {"InvalidTokenError", "InvalidGrammarError"}) = own

\* The tokens that end an operand.
OperandEndTokens ==
    {"int", "float", "string", "boolean", "identifier", "root-access",
     "parentheses-end", "map-delimiter-end"}

\* Token i of toks is "=", "&" or "|" in operator position and the first
\* character of no two-character operator: the tokens before it are a whole
\* expression and the token after it, when there is one, is another token.
LoneOperatorAt(toks, i) ==
    /\ i > 1
    /\ toks[i].TokenID \in {"equals-sign", "and", "or"}
    /\ toks[i - 1].TokenID \in OperandEndTokens
    /\ i < Len(toks) => toks[i + 1].TokenID \notin {toks[i].TokenID, "error"}
    /\ ~IsErr(ParseExpression(SubSeq(toks, 1, i - 1)))

\* C12: "=", "&" or "|" in operator position that the second character of
\* "==", "&&" or "||" does not follow makes the parser fail with an
\* InvalidGrammarError that expects exactly the token of that second
\* character, whether another token or the end of the input follows.
C12_SecondCharacterExpected ==
    pc # "new" =>
        \E toks \in {Tokenize(expressionString)} :
            \A i \in 1..Len(toks) :
                LoneOperatorAt(toks, i) =>
                    /\ pc = "failed"
                    /\ \E err \in {Parse(expressionString).err} :
                           /\ err.kind = "InvalidGrammarError"
                           /\ err.FoundToken = CurrentToken(toks, i + 1)
                           /\ ~err.ExpectedNil
                           /\ err.ExpectedTokens = <<toks[i].TokenID>>

C12_Witness ==
    /\ pc = "failed"
    /\ \E toks \in {Tokenize(expressionString)} :
           /\ LoneOperatorAt(toks, Len(toks))
           /\ toks[Len(toks)].TokenID = "or"

\* Token k of toks is a literal that "(", "." or "[" follows, and the
\* tokens before the literal are empty or end with a binary operator after
\* a whole expression, so that the parser reaches the literal.
LiteralThenAccessAt(toks, k) ==
    /\ k < Len(toks)
    /\ sliceContains(literalTokens, toks[k].TokenID)
    /\ toks[k + 1].TokenID \in {"parentheses-start", "object-access", "map-delimiter-start"}
    /\ \/ k = 1
       \/ /\ k = 3
          /\ toks[2].TokenID \in {"plus", "asterisk", "divide", "power", "mod"}
          /\ ~IsErr(ParseExpression(SubSeq(toks, 1, 1)))

\* C13: a literal that ".", "[" or "(" follows never parses: New fails,
\* and the parser's error is an InvalidGrammarError whose found token is
\* the dot, bracket or parenthesis.
C13_LiteralThenAccess ==
    pc # "new" =>
        \E toks \in {Tokenize(expressionString)} :
            \A k \in 1..Len(toks) :
                LiteralThenAccessAt(toks, k) =>
                    /\ pc = "failed"
                    /\ \E err \in {Parse(expressionString).err} :
                           /\ err.kind = "InvalidGrammarError"
                           /\ err.FoundToken = toks[k + 1]

\* C14: no expression with an "@" token parses: "@" makes the parser fail
\* with an InvalidGrammarError at every place where a value may start, as
\* the first token, after an operator, as an argument and as a bracket key.
C14_CurrentObjectRejected ==
    (pc # "new"
     /\ \E toks \in {Tokenize(expressionString)} :
            \E i \in 1..Len(toks) : toks[i].TokenID = "current-object-access") =>
        /\ pc = "failed"
        /\ Parse(expressionString).err.kind = "InvalidGrammarError"

\* How the argument list that starts before token i of toks goes wrong,
\* for arguments of one token each; afterArgument tells whether the token
\* before token i is an argument.  "ends": the input ends inside the list,
\* between two tokens of it or after the operator of an argument;
\* "after-argument": a token other than "," and ")" follows an argument;
\* "stray": "," or ")" stands where an argument has to be; "closed": the
\* list is closed; "other": a token that belongs to none of these cases.
RECURSIVE ArgumentListFault(_, _, _)
ArgumentListFault(toks, i, afterArgument) ==
    LET id == toks[i].TokenID
        isArgument == id \in {"int", "string", "boolean", "identifier"}
    IN  IF i > Len(toks) THEN "ends"
        ELSE IF afterArgument
        THEN CASE id = "list-separator" -> ArgumentListFault(toks, i + 1, FALSE)
               [] id = "parentheses-end" -> "closed"
               [] isArgument -> "after-argument"
               [] id \in {"plus", "asterisk"} /\ i = Len(toks) -> "ends"
               [] OTHER -> "other"
        ELSE CASE isArgument -> ArgumentListFault(toks, i + 1, TRUE)
               [] id = "parentheses-end" /\ toks[i - 1].TokenID = "parentheses-start" ->
                    "closed"
               [] id \in {"parentheses-end", "list-separator"} -> "stray"
               [] OTHER -> "other"

\* The fault of the argument list of the function call that toks starts
\* with, "other" when toks does not start with one.
CallFault(toks) ==
    IF Len(toks) >= 2 /\ toks[1].TokenID = "identifier"
       /\ toks[2].TokenID = "parentheses-start"
    THEN ArgumentListFault(toks, 3, FALSE)
    ELSE "other"

\* C15: a function call with a malformed argument list (the input ends
\* inside the list, a token other than "," and ")" follows an argument, or
\* a stray token stands before ")") makes the parser fail with an
\* InvalidGrammarError that expects ")" or "," and nothing else: ")" alone
\* when the input ends, "," and ")" after an argument.
C15_ArgumentListErrors ==
    pc # "new" =>
        \E fault \in {CallFault(Tokenize(expressionString))} :
            fault \in {"ends", "after-argument", "stray"} =>
                /\ pc = "failed"
                /\ \E err \in {Parse(expressionString).err} :
                       /\ err.kind = "InvalidGrammarError"
                       /\ err.ExpectedTokens # <<>>
                       /\ \A k \in DOMAIN err.ExpectedTokens :
                              err.ExpectedTokens[k] \in {"parentheses-end", "list-separator"}
                       /\ fault = "ends" => err.ExpectedTokens = <<"parentheses-end">>
                       /\ fault = "after-argument" =>
                              err.ExpectedTokens = <<"list-separator", "parentheses-end">>

(***************************************************************************)
(* Properties of Unpack                                                    *)
(***************************************************************************)
\* Node c of the tree is a subtree of node p.
IsSubtree(c, p) == \E k \in DOMAIN tree[p].Subtrees : tree[p].Subtrees[k] = c

\* Node n is node a or lies below it.
RECURSIVE IsBelowOrSelf(_, _)
IsBelowOrSelf(n, a) ==
    n = a \/ \E c \in DOMAIN tree : IsSubtree(c, a) /\ IsBelowOrSelf(n, c)

\* The stop policy as the specification words it.
Stopped(n) ==
    \/ tree[n].NodeType = "root" /\ requirements.ExcludeDataRootPaths
    \/ tree[n].NodeType = "function" /\ requirements.ExcludeFunctionRootPaths
    \/ tree[n].NodeType = "past-terminal" /\ requirements.StopAtTerminals

\* Node n or a node above it is stopped.
UnderStopped(n) == \E a \in DOMAIN tree : Stopped(a) /\ IsBelowOrSelf(n, a)

\* The segment of node n is on one of the returned paths.
OnReturnedPath(n) ==
    \E k \in DOMAIN returned.paths :
        \E j \in DOMAIN returned.paths[k] : returned.paths[k][j] = tree[n].PathItem

\* C17: no path Unpack returns holds the segment of a stopped node or of
\* a node below one, where DataRoot, Function and PastTerminal nodes are
\* stopped by their flags of the requirements; Access nodes, and Key nodes
\* when keys are included, are never stopped: below no stopped node, their
\* segment is on a returned path.
C17_StopPolicy ==
    (pc = "unpacked" /\ ~returned.panic) =>
        \A n \in DOMAIN tree :
            /\ UnderStopped(n) => ~OnReturnedPath(n)
            /\ (/\ ~UnderStopped(n)
                /\ \/ tree[n].NodeType = "access"
                   \/ tree[n].NodeType = "key" /\ requirements.IncludeKeys)
               => OnReturnedPath(n)

C17_Witness ==
    /\ pc = "unpacked"
    /\ ~returned.panic
    /\ Len(returned.paths) >= 1
    /\ \E a, n \in DOMAIN tree : a # n /\ Stopped(a) /\ IsBelowOrSelf(n, a)

\* The nodes from the root of the tree down to node n.
RECURSIVE ChainTo(_)
ChainTo(n) ==
    IF n = 1 THEN <<1>>
    ELSE Append(ChainTo(CHOOSE p \in DOMAIN tree : IsSubtree(n, p)), n)

\* The segments of the nodes from the root down to node n, without those
\* of the Key nodes when keys are not included.
SegmentsTo(n) ==
    LET Kept(m) == tree[m].NodeType # "key" \/ requirements.IncludeKeys
        chain == SelectSeq(ChainTo(n), Kept)
    IN  [k \in DOMAIN chain |-> tree[chain[k]].PathItem]

ReturnedPaths == {returned.paths[k] : k \in DOMAIN returned.paths}

\* C18: without include_keys no returned path holds the segment of a Key
\* node, and the paths below a Key node are returned with the segments of
\* the nodes above the Key node right before them; with include_keys each
\* Key node has its segment in its place.  Only Key nodes are left out:
\* every returned path is the segments from the root down to a node, and
\* the segments down to each leaf that is kept and below no stopped node
\* are a returned path.
C18_SkipPolicy ==
    (pc = "unpacked" /\ ~returned.panic) =>
        /\ \A n \in DOMAIN tree :
               (tree[n].NodeType = "key" /\ ~requirements.IncludeKeys)
                   => ~OnReturnedPath(n)
        /\ \A path \in ReturnedPaths : \E n \in DOMAIN tree : path = SegmentsTo(n)
        /\ \A n \in DOMAIN tree :
               (/\ tree[n].Subtrees = <<>>
                /\ ~UnderStopped(n)
                /\ tree[n].NodeType # "key" \/ requirements.IncludeKeys)
                   => SegmentsTo(n) \in ReturnedPaths

C18_Witness ==
    /\ pc = "unpacked"
    /\ ~returned.panic
    /\ ~requirements.IncludeKeys
    /\ \E k, n \in DOMAIN tree :
           /\ tree[k].NodeType = "key"
           /\ k # 1
           /\ IsSubtree(n, k)
           /\ SegmentsTo(n) \in ReturnedPaths

\* The skip policy as the specification words it.
Skipped(n) == tree[n].NodeType = "key" /\ ~requirements.IncludeKeys

\* Node n contributes paths to the node above it: it is not stopped, and
\* it is not skipped or a node right below it contributes.
RECURSIVE Contributes(_)
Contributes(n) ==
    /\ ~Stopped(n)
    /\ ~Skipped(n) \/ \E c \in DOMAIN tree : IsSubtree(c, n) /\ Contributes(c)

\* Whether a subtree of node n contributes paths.
HasContributingSubtree(n) == \E c \in DOMAIN tree : IsSubtree(c, n) /\ Contributes(c)

\* C19: a node the traversal reaches that is neither stopped nor skipped
\* and whose subtrees contribute no paths yields one path, made of its own
\* segment, so that a returned path ends at it; a node with a subtree that
\* contributes yields no path that ends at itself.
C19_LeafRule ==
    (pc = "unpacked" /\ ~returned.panic) =>
        \A n \in DOMAIN tree :
            ~UnderStopped(n) =>
                \E yield \in {Unpack(tree, n, requirements).paths} :
                    /\ (~Skipped(n) /\ ~HasContributingSubtree(n)) =>
                           /\ yield = <<<<tree[n].PathItem>>>>
                           /\ SegmentsTo(n) \in ReturnedPaths
                    /\ HasContributingSubtree(n) =>
                           /\ \A k \in DOMAIN yield :
                                  yield[k][Len(yield[k])] # tree[n].PathItem
                           /\ \A path \in ReturnedPaths :
                                  path[Len(path)] # tree[n].PathItem

C19_Witness ==
    /\ pc = "unpacked"
    /\ ~returned.panic
    /\ \E n, c \in DOMAIN tree :
           /\ IsSubtree(c, n)
           /\ ~UnderStopped(n)
           /\ ~Skipped(n)
           /\ ~HasContributingSubtree(n)
           /\ SegmentsTo(n) \in ReturnedPaths

\* The traversal of Unpack reaches node n: no node above it is stopped.
ReachedByUnpack(n) ==
    \A a \in DOMAIN tree : (a # n /\ IsBelowOrSelf(n, a)) => ~Stopped(a)

\* C20: Unpack panics, and returns no list of paths, whenever its traversal
\* reaches a node whose type is none of DataRoot, Function, Access, Key and
\* PastTerminal, under every value of the requirements.
C20_UnknownNodeTypePanics ==
    (/\ pc = "unpacked"
     /\ \E n \in DOMAIN tree :
            /\ tree[n].NodeType \notin {"root", "function", "access", "key", "past-terminal"}
            /\ ReachedByUnpack(n))
        => (returned.panic /\ returned.paths = <<>>)

C20_Witness ==
    /\ pc = "unpacked"
    /\ returned.panic
    /\ tree[1].NodeType = "root"
    /\ \E n \in DOMAIN tree :
           /\ n # 1
           /\ tree[n].NodeType = "abc-invalid"
           /\ ReachedByUnpack(n)


(***************************************************************************)
(* Properties of the resolver                                              *)
(***************************************************************************)
\* The string forms of a list of paths.
PathStrings(paths) == {PathString(paths[i]) : i \in 1..Len(paths)}

\* The number of data root nodes in a heap of path trees.
RootCount(heap) == Cardinality({i \in 1..Len(heap) : heap[i].NodeType = "root"})

\* The sum of f over 1..n.
RECURSIVE SumOver(_, _)
SumOver(f, n) == IF n = 0 THEN 0 ELSE f[n] + SumOver(f, n - 1)

\* A bracket accessor with a key that is not a literal: its trees are the
\* trees of the left side and the trees of the key resolved alone, and its
\* paths are the paths of the two.
KeyResolvedApart(n, r) ==
    LET whole == rootDependencies(n, <<>>, RootScope)
        left == rootDependencies(n.LeftNode, <<>>, RootScope)
        key == rootDependencies(n.RightExpression, <<>>, RootScope)
    IN  ~IsErr(whole) =>
            /\ ~IsErr(left) /\ ~IsErr(key)
            /\ Len(whole.heap) = Len(left.heap) + Len(key.heap)
            /\ RootCount(whole.heap) = RootCount(left.heap) + RootCount(key.heap)
            /\ PathStrings(Dependencies(n, RootScope, r).paths) =
                  PathStrings(Dependencies(n.LeftNode, RootScope, r).paths)
                  \cup PathStrings(Dependencies(n.RightExpression, RootScope, r).paths)

\* A function call: its trees are the trees of each argument resolved
\* alone, the node of the function and the root the call was given, which
\* stays without subtrees; its paths are the paths of the arguments and the
\* function's own.
ArgumentsResolvedApart(n, r) ==
    LET whole == rootDependencies(n, <<>>, RootScope)
        args == n.ArgumentInputs.Arguments
        alone == [i \in 1..Len(args) |-> rootDependencies(args[i], <<>>, RootScope)]
    IN  ~IsErr(whole) =>
            /\ \A i \in 1..Len(args) : ~IsErr(alone[i])
            /\ Len(whole.heap) =
                  2 + SumOver([i \in 1..Len(args) |-> Len(alone[i].heap)], Len(args))
            /\ RootCount(whole.heap) =
                  1 + SumOver([i \in 1..Len(args) |-> RootCount(alone[i].heap)], Len(args))
            /\ whole.heap[1].Subtrees = <<>>
            /\ PathStrings(Dependencies(n, RootScope, r).paths) =
                  {n.FuncIdentifier.IdentifierName}
                  \cup UNION {PathStrings(Dependencies(args[i], RootScope, r).paths) :
                                 i \in 1..Len(args)}

\* C21: the key of a bracket accessor and each argument of a function call
\* are resolved on a root tree of their own: the trees and the dependency
\* paths of the whole are those of its parts resolved alone, no access of a
\* key or an argument is added to the path of the left side or to the tree
\* of another argument, and $.m[$.k] has the two paths $.m and $.k.
C21_SubexpressionsFromRoot ==
    pc = "resolved" =>
        /\ \A n \in Nodes(exprAst) :
              /\ (n.kind = "BracketAccessor"
                  /\ n.RightExpression.kind \notin ValueLiteralKinds) =>
                     KeyResolvedApart(n, requirements)
              /\ n.kind = "FunctionCall" => ArgumentsResolvedApart(n, requirements)
        /\ expressionString = <<"$", ".", "m", "[", "$", ".", "k", "]">> =>
              /\ returned.err.kind = "none"
              /\ PathStrings(returned.paths) = {<<"$", ".", "m">>, <<"$", ".", "k">>}
              /\ Len(returned.paths) = 2

\* The dependencies of a bracket accessor whose key reads the root data, and
\* of a call with two arguments that read it.
C21_Witness ==
    /\ pc = "resolved"
    /\ returned.err.kind = "none"
    /\ \/ /\ exprAst.kind = "BracketAccessor"
          /\ exprAst.RightExpression.kind \in {"DotNotation", "Identifier"}
          /\ Len(returned.paths) = 2
       \/ /\ exprAst.kind = "FunctionCall"
          /\ Len(exprAst.ArgumentInputs.Arguments) = 2
          /\ Len(returned.paths) = 3


\* What the claim gives for left[key] when both sides resolve: a type, or
\* NilSchema for an error.
BracketType(leftType, keyType) ==
    CASE leftType.TypeID = "map" ->
            IF keyType.TypeID = leftType.Keys.TypeID THEN leftType.Values ELSE NilSchema
      [] leftType.TypeID = "list" ->
            IF keyType.TypeID = "integer" THEN leftType.Items ELSE NilSchema
      [] leftType.TypeID = "any" -> AnySchema
      [] OTHER -> NilSchema

\* C22: left[key] resolves to the map's value type when left is a map and
\* the key has the type id of the map's keys, to the item type when left is
\* a list and the key an integer, and to any when left is of type any; in
\* every other case, whatever the key, resolving returns an error.
C22_BracketTyping ==
    pc = "typed" =>
        \A n \in Nodes(exprAst) :
            n.kind = "BracketAccessor" =>
                LET left == Type(n.LeftNode, RootScope)
                    key == Type(n.RightExpression, RootScope)
                    whole == Type(n, RootScope)
                    expected == BracketType(left.type, key.type)
                IN  (left.err.kind = "none" /\ key.err.kind = "none") =>
                        IF expected = NilSchema
                        THEN whole.err.kind = "error"
                        ELSE whole.err.kind = "none" /\ whole.type = expected


\* C23: resolving a call fails if the name is not in the registry, if the
\* number of arguments is not the number of parameters, or if the type an
\* argument resolves to is rejected by the parameter's compatibility check;
\* it succeeds only when none of these holds and every argument resolves,
\* and its type is then the function's output on the argument types.
C23_FunctionCallTyping ==
    pc = "typed" =>
        \A n \in Nodes(exprAst) :
            n.kind = "FunctionCall" =>
                LET name == n.FuncIdentifier.IdentifierName
                    args == n.ArgumentInputs.Arguments
                    whole == Type(n, RootScope)
                    alone == [i \in 1..Len(args) |-> Type(args[i], RootScope)]
                    known == name \in FunctionNames
                    counted == known /\ Len(args) = Len(FunctionParameters(name))
                    rejected(i) ==
                        /\ \A j \in 1..i : alone[j].err.kind = "none"
                        /\ ~ValidateCompatibility(FunctionParameters(name)[i], alone[i].type)
                    accepted ==
                        /\ counted
                        /\ \A i \in 1..Len(args) : alone[i].err.kind = "none" /\ ~rejected(i)
                IN  /\ ~known => whole.err.kind = "error"
                    /\ (known /\ ~counted) => whole.err.kind = "error"
                    /\ (counted /\ \E i \in 1..Len(args) : rejected(i)) =>
                          whole.err.kind = "error"
                    /\ whole.err.kind = "none" <=> accepted
                    /\ accepted =>
                          whole.type =
                             FunctionOutput(name, [i \in 1..Len(args) |-> alone[i].type])

\* Calls that resolve, one of them to the type of its argument, and calls
\* that fail to resolve for each of the three reasons.
C23_Witness ==
    /\ pc = "typed"
    /\ exprAst.kind = "FunctionCall"
    /\ LET name == exprAst.FuncIdentifier.IdentifierName
           args == exprAst.ArgumentInputs.Arguments
       IN  \/ returned.err.kind = "none" /\ name = <<"i">> /\ returned.type.TypeID = "map"
           \/ returned.err.kind = "none" /\ name = <<"g">>
           \/ returned.err.kind = "error" /\ name \notin FunctionNames
           \/ /\ returned.err.kind = "error"
              /\ name = <<"g">> /\ Len(args) = 1
           \/ /\ returned.err.kind = "error"
              /\ name = <<"f">> /\ Len(args) = 1
              /\ Type(args[1], RootScope).type.TypeID = "integer"


\* The type ids an operation is defined for, as the table of operations
\* gives them.
OperandTypeIDs(operation) ==
    CASE operation = "Add" -> {"integer", "float", "string"}
      [] operation \in {"Subtract", "Multiply", "Divide", "Modulus", "Power"} ->
            {"integer", "float"}
      [] operation \in {"EqualTo", "NotEqualTo"} -> {"integer", "float", "string", "bool"}
      [] operation \in {"GreaterThan", "LessThan", "GreaterThanEqualTo", "LessThanEqualTo"} ->
            {"integer", "float", "string"}
      [] operation \in {"And", "Or"} -> {"bool"}
      [] OTHER -> {}

\* C24: Type accepts a binary operation only when the two operands are of
\* one type and the operation is defined for it; the result is then the
\* operand type for arithmetic and concatenation and bool for comparisons
\* and logic.  Every other pair of operand types is a resolve error.
C24_BinaryOperationTyping ==
    pc = "typed" =>
        \A n \in Nodes(exprAst) :
            n.kind = "BinaryOperation" =>
                LET left == Type(n.LeftNode, RootScope)
                    right == Type(n.RightNode, RootScope)
                    whole == Type(n, RootScope)
                    accepted ==
                        /\ left.type = right.type
                        /\ left.type.TypeID \in OperandTypeIDs(n.Operation)
                IN  (left.err.kind = "none" /\ right.err.kind = "none") =>
                        IF accepted
                        THEN /\ whole.err.kind = "none"
                             /\ whole.type =
                                   IF n.Operation \in {"Add", "Subtract", "Multiply",
                                                       "Divide", "Modulus", "Power"}
                                   THEN left.type ELSE BoolSchema
                        ELSE whole.err.kind = "error"

\* A binary operation whose operands resolve to two types, or to one type
\* the operation is not defined for, and that Type rejected.
C24_Witness ==
    /\ pc = "typed"
    /\ exprAst.kind = "BinaryOperation"
    /\ Type(exprAst.LeftNode, RootScope).err.kind = "none"
    /\ Type(exprAst.RightNode, RootScope).err.kind = "none"
    /\ returned.err.kind = "error"
    /\ \/ Type(exprAst.LeftNode, RootScope).type.TypeID
             # Type(exprAst.RightNode, RootScope).type.TypeID
       \/ Type(exprAst.LeftNode, RootScope).type.TypeID \in {"scope", "map", "list"}


(***************************************************************************)
(* Properties of the evaluator                                             *)
(***************************************************************************)
\* The number of calls of functions of the registry among the first n
\* entries of the lookups of an evaluation.
RECURSIVE NumCalls(_, _)
NumCalls(reads, n) ==
    IF n = 0 THEN 0 ELSE (IF reads[n].call THEN 1 ELSE 0) + NumCalls(reads, n - 1)

\* The root data in hand as the evaluator takes it.
RootValue == Value(rootValue, TRUE, <<<<"$">>>>, <<>>)

\* The call n evaluated on the root data in hand: the callable is invoked,
\* last and once, on the values of the arguments when the name is in the
\* registry, every argument gave a value and their number is the number of
\* parameters, and what it returns is returned; otherwise no call beside
\* those of the arguments that were evaluated is made and an error is
\* returned.
CallProtocol(n) ==
    LET name == n.FuncIdentifier.IdentifierName
        args == n.ArgumentInputs.Arguments
        whole == evaluate(n, RootValue, RootValue)
        alone == [i \in 1..Len(args) |-> evaluate(args[i], RootValue, RootValue)]
        known == name \in FunctionNames
        failing == {i \in 1..Len(args) : alone[i].kind # "value"}
        \* The arguments that are evaluated: all up to the first that fails.
        evaluated == IF ~known THEN 0
                     ELSE IF failing = {} THEN Len(args)
                     ELSE CHOOSE i \in failing : \A j \in failing : i <= j
        ready == known /\ failing = {} /\ Len(args) = Len(FunctionParameters(name))
        values == [i \in 1..Len(args) |-> alone[i].val]
        callsOfArguments ==
            SumOver([i \in 1..evaluated |-> NumCalls(alone[i].reads, Len(alone[i].reads))],
                    evaluated)
    IN  /\ NumCalls(whole.reads, Len(whole.reads))
              = callsOfArguments + (IF ready THEN 1 ELSE 0)
        /\ ready =>
              /\ whole.reads[Len(whole.reads)] = Called(name, values)[1]
              /\ whole.kind \in {"value", "error"}
              /\ name = <<"e">> => whole.kind = "error" /\ whole.msg = "handler failed"
              /\ name = <<"h">> =>
                    whole.kind = "value" /\ whole.val = GoString(<<"t", "e", "s", "t">>)
              /\ name = <<"i">> => whole.kind = "value" /\ whole.val = values[1]
        /\ ~ready => whole.kind = "error"

\* C25: Evaluate invokes a callable only after the name was found in the
\* registry, every argument was evaluated on the root data without error
\* and the number of arguments is the number of parameters; in every other
\* case it returns an error and does not invoke it; the error a callable
\* returns is returned as it is.
C25_CallProtocol ==
    pc = "evaluated" =>
        \A n \in Nodes(exprAst) : n.kind = "FunctionCall" => CallProtocol(n)


\* The operands of the binary operation n on the root data in hand gave
\* values of two run-time types.
MixedOperands(n) ==
    LET leftEval == evaluate(n.LeftNode, RootValue, RootValue)
        rightEval == evaluate(n.RightNode, RootValue, RootValue)
    IN  /\ leftEval.kind = "value" /\ rightEval.kind = "value"
        /\ leftEval.val.t # rightEval.val.t

\* C26: a binary operation whose operands have values of two run-time
\* types gives an error, whatever the operator; no operand is taken for a
\* value of the other operand's type.
C26_MixedOperandsRejected ==
    pc = "evaluated" =>
        \A n \in Nodes(exprAst) :
            (n.kind = "BinaryOperation" /\ MixedOperands(n)) =>
                evaluate(n, RootValue, RootValue).kind = "error"

\* An operation on an integer and a float, or on a boolean and a string,
\* that Evaluate rejected.
C26_Witness ==
    /\ pc = "evaluated"
    /\ exprAst.kind = "BinaryOperation"
    /\ MixedOperands(exprAst)
    /\ exprAst.Operation \in {"Add", "Power", "EqualTo", "LessThanEqualTo", "Or"}
    /\ returned.result.kind = "error"


(***************************************************************************)
(* Properties of concurrent calls                                          *)
(***************************************************************************)
\* What the call of a caller returns when it is the only call made on the
\* expression.
ReturnedAlone(call) ==
    CASE call.op = "Type" -> Type(exprAst, RootScope)
      [] call.op = "Dependencies" ->
            Dependencies(exprAst, RootScope, call.unpackRequirements)
      [] call.op = "Evaluate" -> Evaluate(exprAst, call.rootData)

\* Every call that has returned returned what it returns alone.
ReturnsAsAlone ==
    \A c \in Callers : calls[c].at = "done" => calls[c].returned = ReturnedAlone(calls[c])

\* A step of a call leaves the expression and its AST as they are, changes
\* no path tree node that was allocated before it, and changes the frame of
\* one caller only.
StepIsolated ==
    /\ pc = "parsed" => (exprAst' = exprAst /\ expressionString' = expressionString)
    /\ Len(memory') >= Len(memory)
    /\ \A k \in 1..Len(memory) : memory'[k] = memory[k]
    /\ \A c, d \in Callers : (c # d /\ calls'[c] # calls[c]) => calls'[d] = calls[d]

\* C27: whatever the interleaving of the steps of concurrent Type,
\* Dependencies and Evaluate calls on one parsed expression, each call
\* returns what it returns when run alone, and no step writes to the
\* expression, to its AST or to state another call made.
C27_ConcurrentCalls == []ReturnsAsAlone /\ [][StepIsolated]_vars

\* A Dependencies call that has resolved its trees and not yet unpacked
\* them, while another resolving call allocated its trees after them and
\* returned, and an Evaluate call returned too.
C27_Witness ==
    \E c, d, e \in Callers :
        /\ calls[c].op = "Dependencies" /\ calls[c].at = "unpacking" /\ calls[c].i = 1
        /\ calls[d].op \in {"Type", "Dependencies"} /\ calls[d].at = "done"
        /\ calls[d].returned.err.kind = "none"
        /\ calls[e].op = "Evaluate" /\ calls[e].at = "done"
        /\ Len(calls[c].completedPaths) = 2
        /\ \A k \in 1..Len(calls[c].completedPaths) :
              2 * calls[c].completedPaths[k] <= Len(memory)

(***************************************************************************)
(* Properties of the parser at the end of the input                        *)
(***************************************************************************)
\* The number of tokens of the binary operator that ends toks: 2 for ">=",
\* "<=", "==", "!=", "&&" and "||", 1 for the one-character operators, and
\* 0 when toks does not end with a binary operator.
TrailingOperatorLen(toks) ==
    LET n == Len(toks)
        last == toks[n].TokenID
        before == toks[n - 1].TokenID
    IN  IF n = 0 THEN 0
        ELSE IF n > 1 /\ last = "equals-sign"
                /\ before \in {"greater-than", "less-than", "equals-sign", "not"}
        THEN 2
        ELSE IF n > 1 /\ last \in {"and", "or"} /\ before = last THEN 2
        ELSE IF last \in {"plus", "negation-sign", "asterisk", "divide", "mod",
                          "power", "greater-than", "less-than"}
        THEN 1
        ELSE 0

\* toks ends with a binary operator that follows a whole expression.
EndsAfterBinaryOperator(toks) ==
    \E k \in {TrailingOperatorLen(toks)} :
        /\ k > 0
        /\ Len(toks) > k
        /\ ~IsErr(ParseExpression(SubSeq(toks, 1, Len(toks) - k)))

\* The input ends where an operand is required: it is empty, or it ends
\* with a binary operator after a whole expression, or with "-" or "(" at
\* a place where an operand is required, or with "!" at a place where a
\* root expression is required (the start of the input, after "&&" or
\* "||", and after a unary operator or "(").
RECURSIVE OperandRequiredAtEnd(_)
RootExpressionRequiredAtEnd(toks) ==
    \/ toks = <<>>
    \/ /\ EndsAfterBinaryOperator(toks)
       /\ toks[Len(toks)].TokenID \in {"and", "or"}
    \/ /\ toks[Len(toks)].TokenID \in {"negation-sign", "not", "parentheses-start"}
       /\ ~EndsAfterBinaryOperator(toks)
       /\ OperandRequiredAtEnd(toks)

OperandRequiredAtEnd(toks) ==
    \/ toks = <<>>
    \/ EndsAfterBinaryOperator(toks)
    \/ /\ toks[Len(toks)].TokenID \in {"negation-sign", "parentheses-start"}
       /\ OperandRequiredAtEnd(SubSeq(toks, 1, Len(toks) - 1))
    \/ /\ toks[Len(toks)].TokenID = "not"
       /\ RootExpressionRequiredAtEnd(SubSeq(toks, 1, Len(toks) - 1))

\* C28: when the input ends where an operand is required (after a binary
\* operator, after a unary operator, after "(", or on empty input),
\* ParseExpression returns an InvalidGrammarError whose found token is nil,
\* and it does not panic.
C28_EndOfInputError ==
    (pc # "new" /\ OperandRequiredAtEnd(Tokenize(expressionString))) =>
        /\ pc = "failed"
        /\ \E err \in {Parse(expressionString).err} :
               /\ err.kind = "InvalidGrammarError"
               /\ IsNil(err.FoundToken)

\* The tokens that may continue a whole expression: the first tokens of the
\* binary operators and of the accesses.
ContinuingTokens ==
    {"plus", "negation-sign", "asterisk", "divide", "mod", "power",
     "greater-than", "less-than", "equals-sign", "not", "and", "or",
     "object-access", "map-delimiter-start", "parentheses-start"}

\* Token i of toks follows a whole expression that it cannot continue.
LeftOverAt(toks, i) ==
    /\ i > 1
    /\ toks[i].TokenID \notin ContinuingTokens \cup {"error"}
    /\ ~IsErr(ParseExpression(SubSeq(toks, 1, i - 1)))

\* The place in toks of the token an error of the parser carries; the
\* place after the last token when the error carries the nil token.
ErrorPlace(toks, err) ==
    LET tok == IF err.kind = "InvalidTokenError" THEN err.InvalidToken
               ELSE err.FoundToken
    IN  IF IsNil(tok) THEN Len(toks) + 1
        ELSE CHOOSE i \in 1..Len(toks) : toks[i] = tok

StartsWithBareIdentifier(toks) ==
    /\ Len(toks) >= 1
    /\ toks[1].TokenID = "identifier"
    /\ Len(toks) >= 2 => toks[2].TokenID # "parentheses-start"

\* The expression written with "$." before it.
WithExplicitRoot(expression) == <<"$", ".">> \o expression

\* The paths all begin with the item of the data root.
BeginAtRoot(paths) == \A i \in 1..Len(paths) : PathString(paths[i])[1] = "$"

\* C30: on the root scope and on the any schema, under every
\* UnpackRequirements, an expression that starts with a bare identifier
\* resolves to the same type and the same dependency paths, each beginning
\* with "$", as the expression written with "$." before it.
C30_ImplicitRoot ==
    (pc \in {"resolved", "resolved on any"}
     /\ StartsWithBareIdentifier(Tokenize(expressionString))) =>
        \E root \in {IF pc = "resolved" THEN RootScope ELSE AnySchema} :
            \E explicit \in {Parse(WithExplicitRoot(expressionString))} :
                /\ ~IsErr(explicit)
                /\ Dependencies(explicit.node, root, requirements)
                       = [err |-> returned.err, paths |-> returned.paths]
                /\ BeginAtRoot(returned.paths)
                /\ Type(explicit.node, root) = Type(exprAst, root)

====
